---- MODULE Spec2Model ----
(***************************************************************************)
(* Client configuration loading of the OpenShift/Kubernetes CLI:           *)
(* ClientConfigLoadingRules (Default, AppendRule, PrependRule, Load),      *)
(* mergeConfigWithFile, resolveLocalPaths and resolveLocalPath.            *)
(*                                                                         *)
(* A path is the sequence of its components; a rooted path starts with     *)
(* the component "/", and the empty string is the empty sequence:          *)
(*   "/home/u/.kube/config" is <<"/", "home", "u", ".kube", "config">>,    *)
(*   "../ca.crt"            is <<"..", "ca.crt">>,   ""  is  <<>>.         *)
(*                                                                         *)
(* Environment: under Spec the file system does not change while Load     *)
(* runs; SpecFlaky lets a file change between the two passes of Load.      *)
(* os.Getwd gives the working directory or fails (wd): filepath.Abs of a   *)
(* relative path fails with it, and resolveLocalPaths then returns an      *)
(* error and leaves the document as it is.                                 *)
(*                                                                         *)
(* Further parts: NewOpenShiftClientConfigLoadingRules with the --config   *)
(* flag (SpecOS), challengingClient.Do (SpecChallenge, and                 *)
(* SpecChallengeLive for its termination), the persistence flow            *)
(* GetConfigFromDefaultLocations, CreateNewEmptyConfig, UpdateConfigFile,  *)
(* WriteToFile (SpecStore, and SpecRace with a second writer), the         *)
(* project command (SpecProject), and OscClientSetup.DetermineAuthInfo     *)
(* (SpecSetup).  Header values and                                         *)
(* error texts are sequences of pieces of text.  MergeConfig,              *)
(* flagtypes.Addr and the wire codec are not part of the sources at hand;  *)
(* they follow the written description of the persistence component.       *)
(* tokencmd.RequestToken is not at hand either: its outcomes are chosen    *)
(* freely.                                                                 *)
(***************************************************************************)
EXTENDS Integers, Sequences, FiniteSets, TLC

VARIABLES
    rules,            \* ClientConfigLoadingRules.Rules: the list of tiers
    initial,          \* history: the tier list at construction
    prepended,        \* history: arguments of the PrependRule calls, in call order
    appended,         \* history: arguments of the AppendRule calls, in call order
    fs,               \* the file system: path -> absent / unreadable / document
    pc,               \* position of Load: "rules", "map", "scalar", "done"
    kubeConfigFiles,  \* Load: the flattened candidate list
    idx,              \* Load: index of the next candidate of the running loop
    mapConfig,        \* Load: accumulator of the priority-order pass
    nonMapConfig,     \* Load: accumulator of the reverse-order pass
    config,           \* Load: the returned document
    errlist,          \* Load: the collected errors
    resolved,         \* Load: file and document of the last resolveLocalPaths call
    changed,          \* history: the files another process changed between the
                      \* two passes of Load
    rpDir,            \* resolveLocalPath: startingDir argument
    rpPath,           \* resolveLocalPath: path argument
    rpOut,            \* resolveLocalPath: results of the successive applications
    rpPc,             \* resolveLocalPath: "off", "in", "once", "twice"
    cdDoc,            \* Write: the Config document given to it
    cdData,           \* Write: the content it returned
    cdOut,            \* Load: what it returned for that content
    cdPc,             \* Write and Load: "off", "in", "written", "loaded"
    environ,          \* os.Getenv: values of KUBECONFIG and OPENSHIFTCONFIG
    flagConfig,       \* value given to the --config flag
    client,           \* challengingClient: its fields, delegate.Transport included
    sent,             \* history: the transport each request was sent through
    answers,          \* history: what delegate.Do returned for each request
    prompts,          \* history: the prompts shown, in order
    result,           \* what the outermost Do returned
    chPc,             \* position of Do: "off", "do", "ret"
    reqs,             \* history: the request each activation of Do was given, and
                      \* the request that obtained the delegate's response
    perm,             \* the file system: path -> permission bits of the file
    configStore,      \* the ConfigStore chosen for write-back
    login,            \* UpdateConfigFile: username, token and what clientCfg yields
    built,            \* UpdateConfigFile: the local document config
    writes,           \* history: the calls of WriteToFile with their outcome
    ucErr,            \* the error the persistence flow returned
    ucPc,             \* position of the persistence flow
    tried,            \* the paths GetConfigFromDefaultLocations read, in order
    project,          \* the name given to the project command
    setup,            \* OscClientSetup: its fields, and DetermineAuthInfo's calls
                      \* and return values
    other,            \* a second invocation of the command line: its position
                      \* and the store it chose
    wd                \* os.Getwd: the working directory, None when it cannot be
                      \* determined

vars == <<rules, initial, prepended, appended, fs, pc, kubeConfigFiles, idx,
          mapConfig, nonMapConfig, config, errlist, resolved, changed,
          rpDir, rpPath, rpOut, rpPc, cdDoc, cdData, cdOut, cdPc,
          environ, flagConfig, client, sent, answers, prompts, result, chPc, reqs,
          perm, configStore, login, built, writes, ucErr, ucPc, tried, project,
          setup, other, wd>>

loadVars == <<pc, kubeConfigFiles, idx, mapConfig, nonMapConfig, config, errlist,
              resolved, changed>>
ruleVars == <<rules, initial, prepended, appended>>
pathVars == <<rpDir, rpPath, rpOut, rpPc>>
codecVars == <<cdDoc, cdData, cdOut, cdPc>>
osVars == <<environ, flagConfig>>
chVars == <<client, sent, answers, prompts, result, chPc, reqs>>
stVars == <<perm, configStore, login, built, writes, ucErr, ucPc, tried, project>>
auxVars == <<pathVars, codecVars, osVars, chVars, stVars, setup, other, wd>>

(***************************************************************************)
(* Bounds                                                                  *)
(***************************************************************************)
MaxTiers == 2

(***************************************************************************)
(* path/filepath                                                           *)
(***************************************************************************)
EmptyPath == <<>>

IsAbs(p) == Len(p) > 0 /\ p[1] = "/"

RECURSIVE CleanComps(_, _, _)
CleanComps(comps, out, rooted) ==
    IF comps = <<>> THEN out
    ELSE LET c == Head(comps)
             rest == Tail(comps)
         IN  IF c = "." THEN CleanComps(rest, out, rooted)
             ELSE IF c = ".."
                  THEN IF Len(out) > 0 /\ out[Len(out)] # ".."
                       THEN CleanComps(rest, SubSeq(out, 1, Len(out) - 1), rooted)
                       ELSE IF rooted THEN CleanComps(rest, out, rooted)
                            ELSE CleanComps(rest, Append(out, ".."), rooted)
                  ELSE CleanComps(rest, Append(out, c), rooted)

Clean(p) ==
    IF IsAbs(p) THEN <<"/">> \o CleanComps(Tail(p), <<>>, TRUE)
    ELSE LET out == CleanComps(p, <<>>, FALSE)
         IN  IF out = <<>> THEN <<".">> ELSE out

Join(a, b) ==
    IF a = <<>> /\ b = <<>> THEN <<>>
    ELSE IF a = <<>> THEN Clean(b)
    ELSE IF b = <<>> THEN Clean(a)
    ELSE Clean(a \o (IF IsAbs(b) THEN Tail(b) ELSE b))

Dir(p) ==
    IF p = <<"/">> THEN p
    ELSE IF Len(p) = 0 THEN <<".">>
    ELSE Clean(SubSeq(p, 1, Len(p) - 1))

WorkDir == <<"/", "work">>

\* what os.Getwd can give: a directory, or nothing when it fails (the
\* working directory was removed)
WorkingDirs == {WorkDir, <<>>}

\* os.Getwd: the directory, and the error when it cannot be determined
Getwd == [dir |-> wd, err |-> IF wd = <<>> THEN [kind |-> "getwd"] ELSE <<>>]

\* filepath.Abs: a relative path is joined to the working directory
Abs(p) ==
    IF IsAbs(p) THEN [path |-> Clean(p), err |-> <<>>]
    ELSE IF Getwd.err # <<>> THEN [path |-> <<>>, err |-> Getwd.err]
    ELSE [path |-> Join(Getwd.dir, p), err |-> <<>>]

(***************************************************************************)
(* clientcmdapi.Config                                                     *)
(***************************************************************************)
EmptyMap == [k \in {} |-> <<>>]

NewConfig ==
    [Clusters |-> EmptyMap, AuthInfos |-> EmptyMap, Contexts |-> EmptyMap,
     CurrentContext |-> ""]

Cluster(server, insecure, ca) ==
    [Server |-> server, InsecureSkipTLSVerify |-> insecure, CertificateAuthority |-> ca]

AuthInfo(token, cert, key, authPath) ==
    [Token |-> token, ClientCertificate |-> cert, ClientKey |-> key, AuthPath |-> authPath]

Context(cluster, authInfo, namespace) ==
    [Cluster |-> cluster, AuthInfo |-> authInfo, Namespace |-> namespace]


(***************************************************************************)
(* The modelled inputs: candidate files, documents and tiers               *)
(***************************************************************************)
FlagFile == <<"/", "etc", "cfg">>
CurDirFile == <<".kubeconfig">>
HomeFile == <<"/", "home", "u", ".kube", ".kubeconfig">>

Files == {FlagFile, CurDirFile, HomeFile}

DocA ==
    [Clusters |-> ("a" :> Cluster("https://h1", FALSE, <<"ca.crt">>)),
     AuthInfos |-> ("u" :> AuthInfo("t1", <<>>, <<"keys", "k.pem">>, <<>>)),
     Contexts |-> ("x" :> Context("a", "u", "ns1")),
     CurrentContext |-> "x"]

DocB ==
    [Clusters |-> ("a" :> Cluster("https://h2", TRUE, <<"/", "abs", "ca.crt">>))
                  @@ ("b" :> Cluster("https://h3", FALSE, <<"..", "b.crt">>)),
     AuthInfos |-> ("u" :> AuthInfo("", <<"u.crt">>, <<>>, <<"auth">>)),
     Contexts |-> ("x" :> Context("b", "u", ""))
                  @@ ("y" :> Context("b", "v", "ns2")),
     CurrentContext |-> "y"]

DocC ==
    [Clusters |-> EmptyMap,
     AuthInfos |-> ("v" :> AuthInfo("t3", <<"/", "pki", "v.crt">>, <<"v.key">>, <<>>)),
     Contexts |-> EmptyMap,
     CurrentContext |-> ""]

Docs == {DocA, DocB, DocC}

Absent == [kind |-> "absent"]
Unreadable == [kind |-> "bad"]
Holds(doc) == [kind |-> "doc", doc |-> doc]

FileStates == {Absent, Unreadable} \cup {Holds(d) : d \in Docs}

Rule(cmd, env, cur, home) ==
    [CommandLinePath |-> cmd, EnvVarPath |-> env,
     CurrentDirectoryPath |-> cur, HomeDirectoryPath |-> home]

TierInputs ==
    {Rule(FlagFile, EmptyPath, CurDirFile, HomeFile),
     Rule(EmptyPath, HomeFile, EmptyPath, CurDirFile),
     Rule(CurDirFile, HomeFile, FlagFile, EmptyPath)}

(***************************************************************************)
(* ClientConfigLoadingRules                                                *)
(***************************************************************************)
NewClientConfigLoadingRules == <<Rule(EmptyPath, EmptyPath, CurDirFile, HomeFile)>>

None == <<>>

\* the second invocation of the command line before it starts
OtherIdle == [pc |-> "off", store |-> None]

Default(rs) == IF Len(rs) > 0 THEN <<rs[1]>> ELSE None

AppendRule(t) ==
    /\ pc = "rules"
    /\ Len(rules) < MaxTiers
    /\ rules' = rules \o <<t>>
    /\ appended' = Append(appended, t)
    /\ UNCHANGED <<initial, prepended, fs, loadVars, auxVars>>

\* variant of PrependRule: the new tier is put at the end of the list
PrependRuleAtEnd(t) ==
    /\ pc = "rules"
    /\ Len(rules) < MaxTiers
    /\ rules' = rules \o <<t>>
    /\ prepended' = Append(prepended, t)
    /\ UNCHANGED <<initial, appended, fs, loadVars, auxVars>>

PrependRule(t) ==
    /\ pc = "rules"
    /\ Len(rules) < MaxTiers
    /\ rules' = <<t>> \o rules
    /\ prepended' = Append(prepended, t)
    /\ UNCHANGED <<initial, appended, fs, loadVars, auxVars>>

(***************************************************************************)
(* mergo.Merge on Config: a map key present in dst keeps dst's whole       *)
(* entry, a key only in src is added, a non-empty scalar of src overwrites *)
(***************************************************************************)
MergeMap(dst, src) ==
    [k \in DOMAIN dst \cup DOMAIN src |-> IF k \in DOMAIN dst THEN dst[k] ELSE src[k]]

Merge(dst, src) ==
    [Clusters |-> MergeMap(dst.Clusters, src.Clusters),
     AuthInfos |-> MergeMap(dst.AuthInfos, src.AuthInfos),
     Contexts |-> MergeMap(dst.Contexts, src.Contexts),
     CurrentContext |-> IF src.CurrentContext # "" THEN src.CurrentContext
                        ELSE dst.CurrentContext]

(***************************************************************************)
(* Loading one file                                                        *)
(***************************************************************************)
LoadFromFile(filename) == IF filename \in DOMAIN fs THEN fs[filename] ELSE Absent

Exists(filename) == LoadFromFile(filename).kind # "absent"

LoadError(filename) == [kind |-> "load", file |-> filename]
\* Could not determine the absolute path of config file <filename>
AbsError(filename) == [kind |-> "abs", file |-> filename]
MissingError(filename) == [kind |-> "missing", file |-> filename]

\* variant of mergeConfigWithFile: the arguments of mergo.Merge are swapped
mergeConfigWithFileSwapped(startingConfig, filename) ==
    IF Len(filename) = 0 THEN [cfg |-> startingConfig, errs |-> <<>>]
    ELSE LET r == LoadFromFile(filename)
         IN  IF r.kind = "absent" THEN [cfg |-> startingConfig, errs |-> <<>>]
             ELSE IF r.kind = "bad"
                  THEN [cfg |-> startingConfig, errs |-> <<LoadError(filename)>>]
                  ELSE [cfg |-> Merge(r.doc, startingConfig), errs |-> <<>>]

\* variant of mergeConfigWithFile: the loaded document replaces the accumulator
mergeConfigWithFileReplace(startingConfig, filename) ==
    IF Len(filename) = 0 THEN [cfg |-> startingConfig, errs |-> <<>>]
    ELSE LET r == LoadFromFile(filename)
         IN  IF r.kind = "absent" THEN [cfg |-> startingConfig, errs |-> <<>>]
             ELSE IF r.kind = "bad"
                  THEN [cfg |-> startingConfig, errs |-> <<LoadError(filename)>>]
                  ELSE [cfg |-> r.doc, errs |-> <<>>]

\* variant of mergeConfigWithFile: no os.IsNotExist test, a missing file is an error
mergeConfigWithFileNoSkip(startingConfig, filename) ==
    IF Len(filename) = 0 THEN [cfg |-> startingConfig, errs |-> <<>>]
    ELSE LET r == LoadFromFile(filename)
         IN  IF r.kind \in {"absent", "bad"}
             THEN [cfg |-> startingConfig, errs |-> <<LoadError(filename)>>]
             ELSE [cfg |-> Merge(startingConfig, r.doc), errs |-> <<>>]

\* variant of mergeConfigWithFile: every load error is treated like a missing file
mergeConfigWithFileSwallow(startingConfig, filename) ==
    IF Len(filename) = 0 THEN [cfg |-> startingConfig, errs |-> <<>>]
    ELSE LET r == LoadFromFile(filename)
         IN  IF r.kind \in {"absent", "bad"}
             THEN [cfg |-> startingConfig, errs |-> <<>>]
             ELSE [cfg |-> Merge(startingConfig, r.doc), errs |-> <<>>]

mergeConfigWithFile(startingConfig, filename) ==
    IF Len(filename) = 0 THEN [cfg |-> startingConfig, errs |-> <<>>]
    ELSE LET r == LoadFromFile(filename)
         IN  IF r.kind = "absent" THEN [cfg |-> startingConfig, errs |-> <<>>]
             ELSE IF r.kind = "bad"
                  THEN [cfg |-> startingConfig, errs |-> <<LoadError(filename)>>]
                  ELSE [cfg |-> Merge(startingConfig, r.doc), errs |-> <<>>]

\* variant of resolveLocalPath: no filepath.IsAbs test
resolveLocalPathAlwaysJoin(startingDir, path) ==
    IF Len(path) = 0 THEN path
    ELSE Join(startingDir, path)

resolveLocalPath(startingDir, path) ==
    IF Len(path) = 0 THEN path
    ELSE IF IsAbs(path) THEN path
    ELSE Join(startingDir, path)

\* the file references of cfg resolved against configDir
ResolveAll(configDir, cfg) ==
    [cfg EXCEPT
        !.Clusters = [k \in DOMAIN cfg.Clusters |->
            [cfg.Clusters[k] EXCEPT
                !.CertificateAuthority = resolveLocalPath(configDir, @)]],
        !.AuthInfos = [k \in DOMAIN cfg.AuthInfos |->
            [cfg.AuthInfos[k] EXCEPT
                !.AuthPath = resolveLocalPath(configDir, @),
                !.ClientCertificate = resolveLocalPath(configDir, @),
                !.ClientKey = resolveLocalPath(configDir, @)]]]

\* variant of resolveLocalPaths: the directory is not made absolute
resolveLocalPathsNoAbs(filename, cfg) ==
    IF Len(filename) = 0 THEN [cfg |-> cfg, errs |-> <<>>]
    ELSE [cfg |-> ResolveAll(Dir(filename), cfg), errs |-> <<>>]

\* the document with its references resolved and the error returned: when
\* the directory of the file cannot be made absolute the document is left
\* as it is
resolveLocalPaths(filename, cfg) ==
    IF Len(filename) = 0 THEN [cfg |-> cfg, errs |-> <<>>]
    ELSE LET configDir == Abs(Dir(filename))
         IN  IF configDir.err # <<>>
             THEN [cfg |-> cfg, errs |-> <<AbsError(filename)>>]
             ELSE [cfg |-> ResolveAll(configDir.path, cfg), errs |-> <<>>]

(***************************************************************************)
(* ClientConfigLoadingRules.Load                                           *)
(***************************************************************************)
\* The receiver's CommandLinePath is the one the command-line flag is bound
\* on: the first tier's (Default()).
CommandLinePath(rs) == IF Len(rs) > 0 THEN rs[1].CommandLinePath ELSE EmptyPath

\* variant of StatCheck: the explicitly named file is not checked
StatCheckNone(rs) == <<>>

StatCheck(rs) ==
    IF Len(CommandLinePath(rs)) > 0 /\ ~Exists(CommandLinePath(rs))
    THEN <<MissingError(CommandLinePath(rs))>>
    ELSE <<>>

\* variant of FlattenRules: the environment-variable slot comes after the
\* current-directory slot
RECURSIVE FlattenRulesEnvLate(_)
FlattenRulesEnvLate(rs) ==
    IF rs = <<>> THEN <<>>
    ELSE <<rs[1].CommandLinePath, rs[1].CurrentDirectoryPath,
           rs[1].EnvVarPath, rs[1].HomeDirectoryPath>>
         \o FlattenRulesEnvLate(Tail(rs))

RECURSIVE FlattenRules(_)
FlattenRules(rs) ==
    IF rs = <<>> THEN <<>>
    ELSE <<rs[1].CommandLinePath, rs[1].EnvVarPath,
           rs[1].CurrentDirectoryPath, rs[1].HomeDirectoryPath>>
         \o FlattenRules(Tail(rs))

NewAggregate(errs) == errs

LoadBegin ==
    /\ pc = "rules"
    /\ errlist' = StatCheck(rules)
    /\ kubeConfigFiles' = FlattenRules(rules)
    /\ mapConfig' = NewConfig
    /\ idx' = 1
    /\ pc' = "map"
    /\ UNCHANGED <<ruleVars, fs, changed, nonMapConfig, config, resolved, auxVars>>

MapPassStep ==
    /\ pc = "map"
    /\ idx <= Len(kubeConfigFiles)
    /\ LET file == kubeConfigFiles[idx]
           m == mergeConfigWithFile(mapConfig, file)
           r == resolveLocalPaths(file, m.cfg)
       IN  /\ mapConfig' = r.cfg
           /\ resolved' = [file |-> file, config |-> m.cfg]
           /\ errlist' = errlist \o m.errs \o r.errs
    /\ idx' = idx + 1
    /\ UNCHANGED <<ruleVars, fs, changed, pc, kubeConfigFiles, nonMapConfig, config, auxVars>>

MapPassEnd ==
    /\ pc = "map"
    /\ idx > Len(kubeConfigFiles)
    /\ nonMapConfig' = NewConfig
    /\ idx' = Len(kubeConfigFiles)
    /\ pc' = "scalar"
    /\ UNCHANGED <<ruleVars, fs, changed, kubeConfigFiles, mapConfig, config, errlist, resolved,
                   auxVars>>

\* variant of ScalarPassStep: the errors of the second pass are collected
ScalarPassStepReporting ==
    /\ pc = "scalar"
    /\ idx >= 1
    /\ LET file == kubeConfigFiles[idx]
           m == mergeConfigWithFile(nonMapConfig, file)
           r == resolveLocalPaths(file, m.cfg)
       IN  /\ nonMapConfig' = r.cfg
           /\ resolved' = [file |-> file, config |-> m.cfg]
           /\ errlist' = errlist \o m.errs \o r.errs
    /\ idx' = idx - 1
    /\ UNCHANGED <<ruleVars, fs, changed, pc, kubeConfigFiles, mapConfig, config, auxVars>>

ScalarPassStep ==
    /\ pc = "scalar"
    /\ idx >= 1
    /\ LET file == kubeConfigFiles[idx]
           m == mergeConfigWithFile(nonMapConfig, file)
       IN  /\ nonMapConfig' = resolveLocalPaths(file, m.cfg).cfg
           /\ resolved' = [file |-> file, config |-> m.cfg]
    /\ idx' = idx - 1
    /\ UNCHANGED <<ruleVars, fs, changed, pc, kubeConfigFiles, mapConfig, config, errlist, auxVars>>

\* variant of Combine: nonMapConfig is not merged on top
CombineMapOnly ==
    /\ pc = "scalar"
    /\ idx < 1
    /\ config' = Merge(NewConfig, mapConfig)
    /\ errlist' = NewAggregate(errlist)
    /\ pc' = "done"
    /\ UNCHANGED <<ruleVars, fs, changed, kubeConfigFiles, idx, mapConfig, nonMapConfig, resolved,
                   auxVars>>

\* variant of Combine: mapConfig is merged on top of nonMapConfig
CombineScalarFirst ==
    /\ pc = "scalar"
    /\ idx < 1
    /\ config' = Merge(Merge(NewConfig, nonMapConfig), mapConfig)
    /\ errlist' = NewAggregate(errlist)
    /\ pc' = "done"
    /\ UNCHANGED <<ruleVars, fs, changed, kubeConfigFiles, idx, mapConfig, nonMapConfig, resolved,
                   auxVars>>

Combine ==
    /\ pc = "scalar"
    /\ idx < 1
    /\ config' = Merge(Merge(NewConfig, mapConfig), nonMapConfig)
    /\ errlist' = NewAggregate(errlist)
    /\ pc' = "done"
    /\ UNCHANGED <<ruleVars, fs, changed, kubeConfigFiles, idx, mapConfig, nonMapConfig, resolved,
                   auxVars>>

\* one loop of Load over the files in the order given: each file is merged
\* into the accumulator and the paths of the accumulator are resolved
RECURSIVE Pass(_, _)
Pass(files, acc) ==
    IF files = <<>> THEN acc
    ELSE LET m == mergeConfigWithFile(acc.cfg, Head(files))
             r == resolveLocalPaths(Head(files), m.cfg)
         IN  Pass(Tail(files),
                  [cfg |-> r.cfg, errs |-> acc.errs \o m.errs \o r.errs])

\* Load on the candidate list cands, from the first loop on: the document
\* returned and the errors the first loop collects
LoadOf(cands) ==
    LET start == [cfg |-> NewConfig, errs |-> <<>>]
        mapPass == Pass(cands, start)
        scalarPass == Pass([i \in 1..Len(cands) |-> cands[Len(cands) + 1 - i]], start)
    IN  [config |-> Merge(Merge(NewConfig, mapPass.cfg), scalarPass.cfg),
         errs |-> mapPass.errs]

\* no environment variable is set and no flag is given
OsIdle ==
    /\ environ = [KUBECONFIG |-> <<>>, OPENSHIFTCONFIG |-> <<>>]
    /\ flagConfig = <<>>

(***************************************************************************)
(* Specification of the loading rules and Load                             *)
(***************************************************************************)
\* no challengingClient exists
ChallengeIdle ==
    /\ client = <<>>
    /\ sent = <<>>
    /\ answers = <<>>
    /\ prompts = <<>>
    /\ result = <<>>
    /\ chPc = "off"
    /\ reqs = <<>>

\* no document is being encoded
CodecIdle ==
    /\ cdDoc = <<>>
    /\ cdData = <<>>
    /\ cdOut = <<>>
    /\ cdPc = "off"

\* no persistence flow is running
StoreIdle ==
    /\ perm = <<>>
    /\ configStore = <<>>
    /\ login = <<>>
    /\ built = <<>>
    /\ writes = <<>>
    /\ ucErr = <<>>
    /\ ucPc = "off"
    /\ tried = <<>>
    /\ project = ""

Init ==
    /\ rules \in {<<>>, NewClientConfigLoadingRules}
    /\ initial = rules
    /\ prepended = <<>>
    /\ appended = <<>>
    /\ fs \in [Files -> FileStates]
    /\ pc = "rules"
    /\ kubeConfigFiles = <<>>
    /\ idx = 0
    /\ mapConfig = NewConfig
    /\ nonMapConfig = NewConfig
    /\ config = NewConfig
    /\ errlist = <<>>
    /\ resolved = <<>>
    /\ changed = {}
    /\ rpDir = <<>>
    /\ rpPath = <<>>
    /\ rpOut = <<>>
    /\ rpPc = "off"
    /\ CodecIdle
    /\ OsIdle
    /\ ChallengeIdle
    /\ StoreIdle
    /\ setup = <<>>
    /\ other = OtherIdle
    /\ wd \in WorkingDirs

Next ==
    \/ \E t \in TierInputs : AppendRule(t)
    \/ \E t \in TierInputs : PrependRule(t)
    \/ LoadBegin
    \/ MapPassStep
    \/ MapPassEnd
    \/ ScalarPassStep
    \/ Combine

Spec == Init /\ [][Next]_vars

\* another process changes a candidate file between the two passes of Load:
\* a file that held a document can no longer be read, or a file appears
FileChanges ==
    /\ pc = "scalar"
    /\ idx = Len(kubeConfigFiles)
    /\ \E f \in Files :
          /\ \/ fs[f].kind = "doc" /\ fs' = [fs EXCEPT ![f] = Unreadable]
             \/ fs[f] = Absent /\ fs' = [fs EXCEPT ![f] = Holds(DocC)]
          /\ changed' = changed \cup {f}
    /\ UNCHANGED <<ruleVars, pc, kubeConfigFiles, idx, mapConfig, nonMapConfig, config,
                   errlist, resolved, auxVars>>

NextFlaky == Next \/ FileChanges

SpecFlaky == Init /\ [][NextFlaky]_vars


(***************************************************************************)
(* Specification of resolveLocalPath alone: inputs drawn from bounded sets *)
(***************************************************************************)
AbsDirs ==
    {<<"/">>, <<"/", "work">>, <<"/", "etc">>, <<"/", "home", "u", ".kube">>}

PathInputs ==
    {<<>>, <<"ca.crt">>, <<"/", "abs", "ca.crt">>, <<"..", "b.crt">>,
     <<"keys", "k.pem">>, <<".">>, <<"/", "a", "..", "b">>, <<"a", ".", "b">>}

ResolveOnce ==
    /\ rpPc = "in"
    /\ rpOut' = <<[dir |-> rpDir, out |-> resolveLocalPath(rpDir, rpPath)]>>
    /\ rpPc' = "once"
    /\ UNCHANGED <<ruleVars, fs, loadVars, rpDir, rpPath, codecVars, osVars, setup, other, wd, chVars, stVars>>

ResolveAgain(d) ==
    /\ rpPc = "once"
    /\ rpOut' = Append(rpOut, [dir |-> d, out |-> resolveLocalPath(d, rpOut[1].out)])
    /\ rpPc' = "twice"
    /\ UNCHANGED <<ruleVars, fs, loadVars, rpDir, rpPath, codecVars, osVars, setup, other, wd, chVars, stVars>>

InitPath ==
    /\ rules = <<>>
    /\ initial = <<>>
    /\ prepended = <<>>
    /\ appended = <<>>
    /\ fs = [f \in Files |-> Absent]
    /\ pc = "off"
    /\ kubeConfigFiles = <<>>
    /\ idx = 0
    /\ mapConfig = NewConfig
    /\ nonMapConfig = NewConfig
    /\ config = NewConfig
    /\ errlist = <<>>
    /\ resolved = <<>>
    /\ changed = {}
    /\ rpDir \in AbsDirs
    /\ rpPath \in PathInputs
    /\ rpOut = <<>>
    /\ rpPc = "in"
    /\ CodecIdle
    /\ OsIdle
    /\ ChallengeIdle
    /\ StoreIdle
    /\ setup = <<>>
    /\ other = OtherIdle
    /\ wd = WorkDir

NextPath ==
    \/ ResolveOnce
    \/ \E d \in AbsDirs : ResolveAgain(d)

SpecPath == InitPath /\ [][NextPath]_vars

(***************************************************************************)
(* Reference notions used to state the properties                          *)
(***************************************************************************)
MapFields == {"Clusters", "AuthInfos", "Contexts"}

\* candidate f was read and decoded
Loaded(f) == Len(f) > 0 /\ LoadFromFile(f).kind = "doc"

DocOf(f) == LoadFromFile(f).doc

\* positions of the candidate list cands whose file defines key k of field
Definers(cands, field, k) ==
    {i \in 1..Len(cands) : Loaded(cands[i]) /\ k \in DOMAIN DocOf(cands[i])[field]}

Lowest(S) == CHOOSE i \in S : \A j \in S : i <= j

\* the file of highest priority that defines key k of field
WinnerFile(cands, field, k) == cands[Lowest(Definers(cands, field, k))]

\* the directory of file f can be made absolute
HasAbsDir(f) == IsAbs(Dir(f)) \/ wd # <<>>

\* a file reference p of file f, anchored at the directory of f
Anchored(f, p) ==
    IF p = <<>> \/ IsAbs(p) \/ ~HasAbsDir(f) THEN p
    ELSE Clean((IF IsAbs(Dir(f)) THEN Dir(f) ELSE wd \o Dir(f)) \o p)

\* the entry of key k of field in file f, with its file references anchored at f
AnchoredEntry(f, field, k) ==
    LET e == DocOf(f)[field][k]
    IN  IF field = "Clusters"
        THEN Cluster(e.Server, e.InsecureSkipTLSVerify, Anchored(f, e.CertificateAuthority))
        ELSE IF field = "AuthInfos"
        THEN AuthInfo(e.Token, Anchored(f, e.ClientCertificate),
                      Anchored(f, e.ClientKey), Anchored(f, e.AuthPath))
        ELSE e

\* what the reference p of file f can be in a document Load built.  It is
\* anchored at the directory of f; when that directory cannot be made
\* absolute it is p as the file has it, or p joined to the directory of a
\* candidate whose directory can be made absolute.
AnchoredAt(f, p) ==
    IF p = <<>> \/ IsAbs(p) \/ HasAbsDir(f) THEN {Anchored(f, p)}
    ELSE {p} \cup {Join(Abs(Dir(kubeConfigFiles[i])).path, p) :
                     i \in {j \in 1..Len(kubeConfigFiles) :
                              /\ Len(kubeConfigFiles[j]) > 0
                              /\ HasAbsDir(kubeConfigFiles[j])}}

\* e is the entry of key k of field in file f, whole, with its file
\* references anchored
FromFile(e, f, field, k) ==
    LET d == DocOf(f)[field][k]
    IN  IF field = "Clusters"
        THEN \E ca \in AnchoredAt(f, d.CertificateAuthority) :
                e = Cluster(d.Server, d.InsecureSkipTLSVerify, ca)
        ELSE IF field = "AuthInfos"
        THEN \E cert \in AnchoredAt(f, d.ClientCertificate),
                key \in AnchoredAt(f, d.ClientKey),
                auth \in AnchoredAt(f, d.AuthPath) :
                e = AuthInfo(d.Token, cert, key, auth)
        ELSE e = d

KeysOf(cands, field) ==
    UNION {DOMAIN DocOf(cands[i])[field] : i \in {j \in 1..Len(cands) : Loaded(cands[j])}}

ContextSetters(cands) ==
    {i \in 1..Len(cands) : Loaded(cands[i]) /\ DocOf(cands[i]).CurrentContext # ""}

ExpectedCurrentContext(cands) ==
    IF ContextSetters(cands) = {} THEN ""
    ELSE DocOf(cands[Lowest(ContextSetters(cands))]).CurrentContext

ExpectedMap(cands, field) ==
    [k \in KeysOf(cands, field) |-> AnchoredEntry(WinnerFile(cands, field, k), field, k)]

ExpectedDoc(cands) ==
    [Clusters |-> ExpectedMap(cands, "Clusters"),
     AuthInfos |-> ExpectedMap(cands, "AuthInfos"),
     Contexts |-> ExpectedMap(cands, "Contexts"),
     CurrentContext |-> ExpectedCurrentContext(cands)]

\* doc is the document merged from the candidates cands: the keys of the
\* loaded files, each with the entry of the file of highest priority, and
\* the CurrentContext of the file of highest priority that sets one
MergedFrom(doc, cands) ==
    /\ \A field \in MapFields :
          /\ DOMAIN doc[field] = KeysOf(cands, field)
          /\ \A k \in DOMAIN doc[field] :
                FromFile(doc[field][k], WinnerFile(cands, field, k), field, k)
    /\ doc.CurrentContext = ExpectedCurrentContext(cands)

Range(s) == {s[i] : i \in DOMAIN s}

\* the file references of a document
FileRefs(doc) ==
    {doc.Clusters[k].CertificateAuthority : k \in DOMAIN doc.Clusters}
    \cup UNION {{doc.AuthInfos[k].AuthPath, doc.AuthInfos[k].ClientCertificate,
                 doc.AuthInfos[k].ClientKey} : k \in DOMAIN doc.AuthInfos}


(***************************************************************************)
(* Properties of Load                                                      *)
(***************************************************************************)
Done == pc = "done"

\* positions i < j of the candidate list that hold two loaded files
LoadedPairs ==
    {<<i, j>> \in (1..Len(kubeConfigFiles)) \X (1..Len(kubeConfigFiles)) :
        /\ i < j
        /\ Loaded(kubeConfigFiles[i])
        /\ Loaded(kubeConfigFiles[j])
        /\ \A h \in 1..(j - 1) : h # i => ~Loaded(kubeConfigFiles[h])}

\* C1: map first-wins. Every entry of Clusters, AuthInfos and Contexts of the
\* document Load returns is the whole entry, with its file references
\* anchored, of the highest-priority loaded file that defines its key; nothing
\* of a lower-priority file's entry for that key is in it.
C1_MapFirstWins ==
    Done =>
        \A field \in MapFields : \A k \in DOMAIN config[field] :
            /\ Definers(kubeConfigFiles, field, k) # {}
            /\ FromFile(config[field][k], WinnerFile(kubeConfigFiles, field, k), field, k)

\* C1 witness: DocA outranks DocB, both define auth info "u"; DocA leaves the
\* client certificate empty, DocB sets it, and the result keeps it empty.
C1_Witness ==
    /\ Done
    /\ \E pr \in LoadedPairs :
          /\ DocOf(kubeConfigFiles[pr[1]]) = DocA
          /\ DocOf(kubeConfigFiles[pr[2]]) = DocB
    /\ config.AuthInfos["u"].ClientCertificate = <<>>
    /\ config.AuthInfos["u"].Token = "t1"
    /\ config.Clusters["a"].Server = "https://h1"

\* C2: scalar highest-priority-wins. The CurrentContext of the returned
\* document is that of the highest-priority loaded file that sets a non-empty
\* one, and is empty only if no loaded file sets one.
C2_ScalarHighestPriorityWins ==
    Done => config.CurrentContext = ExpectedCurrentContext(kubeConfigFiles)

\* C2 witness: file A ("x") outranks file B ("y") and the result is "x".
C2_Witness ==
    /\ Done
    /\ \E pr \in LoadedPairs :
          /\ DocOf(kubeConfigFiles[pr[1]]).CurrentContext = "x"
          /\ DocOf(kubeConfigFiles[pr[2]]).CurrentContext = "y"
    /\ config.CurrentContext = "x"

\* C3: map union. The key set of each map field of the returned document is
\* the union of the key sets of that field over the loaded candidate files.
C3_MapUnion ==
    Done => \A field \in MapFields :
                DOMAIN config[field] = KeysOf(kubeConfigFiles, field)

\* C3 witness: cluster "b" and context "y" are defined only by the
\* lower-priority file and are in the result next to the keys of the other.
C3_Witness ==
    /\ Done
    /\ \E pr \in LoadedPairs :
          /\ DocOf(kubeConfigFiles[pr[1]]) = DocA
          /\ DocOf(kubeConfigFiles[pr[2]]) = DocB
    /\ DOMAIN config.Clusters = {"a", "b"}
    /\ DOMAIN config.Contexts = {"x", "y"}

\* the directory of every candidate file can be made absolute
DirsAbsolute ==
    \A i \in 1..Len(kubeConfigFiles) :
        Len(kubeConfigFiles[i]) > 0 => HasAbsDir(kubeConfigFiles[i])

\* C4 as stated: every file reference of the returned document is empty or
\* absolute, and a reference that was relative in its file is anchored at
\* the directory of the file that supplied the winning entry.
C4_ReferencesAbsolute ==
    Done =>
        /\ \A p \in FileRefs(config) : p = <<>> \/ IsAbs(p)
        /\ \A k \in DOMAIN config.Clusters :
              LET f == WinnerFile(kubeConfigFiles, "Clusters", k)
              IN  config.Clusters[k].CertificateAuthority =
                      Anchored(f, DocOf(f).Clusters[k].CertificateAuthority)
        /\ \A k \in DOMAIN config.AuthInfos :
              LET f == WinnerFile(kubeConfigFiles, "AuthInfos", k)
                  e == DocOf(f).AuthInfos[k]
              IN  /\ config.AuthInfos[k].AuthPath = Anchored(f, e.AuthPath)
                  /\ config.AuthInfos[k].ClientCertificate = Anchored(f, e.ClientCertificate)
                  /\ config.AuthInfos[k].ClientKey = Anchored(f, e.ClientKey)

\* What holds of Load in place of C4: the property holds when the directory
\* of every candidate file can be made absolute (its path is absolute or the
\* working directory can be determined).  For a candidate whose directory
\* cannot, Load reports an error, and a relative reference of such a file is
\* left as it is or is joined to the directory of another candidate.
C4_AnchoredOrReported ==
    Done =>
        /\ DirsAbsolute => C4_ReferencesAbsolute
        /\ \A i \in 1..Len(kubeConfigFiles) :
              (Len(kubeConfigFiles[i]) > 0 /\ ~HasAbsDir(kubeConfigFiles[i]))
                 => AbsError(kubeConfigFiles[i]) \in Range(errlist)
        /\ \A k \in DOMAIN config.Clusters :
              LET f == WinnerFile(kubeConfigFiles, "Clusters", k)
              IN  config.Clusters[k].CertificateAuthority
                      \in AnchoredAt(f, DocOf(f).Clusters[k].CertificateAuthority)
        /\ \A k \in DOMAIN config.AuthInfos :
              LET f == WinnerFile(kubeConfigFiles, "AuthInfos", k)
                  e == DocOf(f).AuthInfos[k]
              IN  /\ config.AuthInfos[k].AuthPath \in AnchoredAt(f, e.AuthPath)
                  /\ config.AuthInfos[k].ClientCertificate
                        \in AnchoredAt(f, e.ClientCertificate)
                  /\ config.AuthInfos[k].ClientKey \in AnchoredAt(f, e.ClientKey)

\* C4 witness: the relative "ca.crt" of the current-directory file is anchored
\* at the working directory although files of two other directories were
\* loaded after it, one of them defining the same cluster.
C4_Witness ==
    /\ Done
    /\ \E i, j, h \in 1..Len(kubeConfigFiles) :
          /\ i < j /\ i < h
          /\ kubeConfigFiles[i] = CurDirFile /\ Loaded(CurDirFile)
          /\ DocOf(CurDirFile) = DocA
          /\ kubeConfigFiles[j] = HomeFile /\ Loaded(HomeFile)
          /\ DocOf(HomeFile) = DocB
          /\ kubeConfigFiles[h] = FlagFile /\ Loaded(FlagFile)
          /\ \A g \in 1..(i - 1) : ~Loaded(kubeConfigFiles[g])
    /\ config.Clusters["a"].CertificateAuthority = <<"/", "work", "ca.crt">>
    /\ config.Clusters["b"].CertificateAuthority = <<"/", "home", "u", "b.crt">>
    /\ config.AuthInfos["u"].ClientKey = <<"/", "work", "keys", "k.pem">>


\* C5: resolveLocalPath leaves an empty path empty and an absolute path
\* unchanged, maps a relative path p of a file in directory d to join(d, p),
\* and a second resolution, against any directory, changes nothing.
C5_ResolveLocalPath ==
    rpPc \in {"once", "twice"} =>
        /\ rpPath = <<>> => rpOut[1].out = <<>>
        /\ IsAbs(rpPath) => rpOut[1].out = rpPath
        /\ (rpPath # <<>> /\ ~IsAbs(rpPath)) =>
              /\ rpOut[1].out = Clean(rpDir \o rpPath)
              /\ IsAbs(rpOut[1].out)
        /\ rpPc = "twice" => rpOut[2].out = rpOut[1].out

\* C5 witness: "ca.crt" of /home/u/.kube/config became /home/u/.kube/ca.crt
\* and was resolved again against another directory.
C5_Witness ==
    /\ rpPc = "twice"
    /\ rpPath = <<"ca.crt">>
    /\ rpDir = <<"/", "home", "u", ".kube">>
    /\ rpOut[1].out = <<"/", "home", "u", ".kube", "ca.crt">>
    /\ rpOut[2].dir = <<"/", "etc">>

\* position i of the candidate list is a command-line slot
IsCommandLineSlot(i) == i % 4 = 1

\* position i holds an empty path, or is a non-command-line slot whose file
\* does not exist
MissingOptional(i) ==
    \/ Len(kubeConfigFiles[i]) = 0
    \/ ~IsCommandLineSlot(i) /\ ~Exists(kubeConfigFiles[i])

\* C6: missing optional file. Processing a slot whose path is empty, or a
\* non-command-line slot whose file does not exist, adds no error and leaves
\* the accumulated document as it was, in both passes.
C6_MissingOptionalFile ==
    [][/\ (pc = "map" /\ idx <= Len(kubeConfigFiles) /\ MissingOptional(idx))
            => (mapConfig' = mapConfig /\ errlist' = errlist)
       /\ (pc = "scalar" /\ idx >= 1 /\ MissingOptional(idx))
            => (nonMapConfig' = nonMapConfig /\ errlist' = errlist)]_vars

\* C6 witness: the map pass has just stepped over a non-command-line slot
\* naming a file that does not exist, after it had merged a document.
C6_Witness ==
    /\ pc = "map"
    /\ idx > 2
    /\ ~IsCommandLineSlot(idx - 1)
    /\ Len(kubeConfigFiles[idx - 1]) > 0
    /\ ~Exists(kubeConfigFiles[idx - 1])
    /\ \E i \in 1..(idx - 2) : Loaded(kubeConfigFiles[i]) /\ DocOf(kubeConfigFiles[i]) = DocA
    /\ mapConfig.Clusters["a"].CertificateAuthority = Anchored(WinnerFile(kubeConfigFiles, "Clusters", "a"), <<"ca.crt">>)
    /\ errlist = <<>>

\* the command-line-specified path is set and names no file
CommandLineFileMissing ==
    Len(CommandLinePath(rules)) > 0 /\ ~Exists(CommandLinePath(rules))

ErrorsFor(f) == {j \in DOMAIN errlist : errlist[j].file = f}

\* C7: missing required file. When the command-line path names a file that
\* does not exist, the aggregate holds exactly one error for it and Load still
\* returns the document merged from the remaining candidates.
C7_MissingRequiredFile ==
    (Done /\ CommandLineFileMissing) =>
        /\ Cardinality(ErrorsFor(CommandLinePath(rules))) = 1
        /\ MissingError(CommandLinePath(rules)) \in Range(errlist)
        /\ MergedFrom(config, Tail(kubeConfigFiles))

\* C7 witness: the flag names a file that does not exist, and the documents
\* of the two other files are merged.
C7_Witness ==
    /\ Done
    /\ CommandLinePath(rules) = FlagFile
    /\ ~Exists(FlagFile)
    /\ errlist = <<MissingError(FlagFile)>>
    /\ DOMAIN config.Clusters = {"a", "b"}
    /\ config.CurrentContext # ""

BadSlots == {i \in 1..Len(kubeConfigFiles) :
                /\ Len(kubeConfigFiles[i]) > 0
                /\ LoadFromFile(kubeConfigFiles[i]).kind = "bad"}

\* a problem of the taxonomy of errors: a candidate file that exists and
\* cannot be read or decoded, a command-line file that is missing, or a
\* loaded file whose directory cannot be made absolute
ProblemSlots ==
    {i \in 1..Len(kubeConfigFiles) :
        \/ i \in BadSlots
        \/ Loaded(kubeConfigFiles[i]) /\ ~HasAbsDir(kubeConfigFiles[i])}

\* C8: decode error. Every candidate that exists but cannot be read or
\* decoded adds one error, nothing of it is in the returned document, the
\* other candidates are merged, and the aggregate is nil exactly when no
\* candidate produced a problem: none cannot be decoded, the command-line
\* file is not missing, and the directory of each loaded file can be made
\* absolute.
C8_DecodeError ==
    Done =>
        /\ \A f \in Files :
              LoadFromFile(f).kind = "bad" =>
                  Cardinality({j \in DOMAIN errlist : errlist[j] = LoadError(f)})
                      = Cardinality({i \in BadSlots : kubeConfigFiles[i] = f})
        /\ (errlist = <<>>) <=> (ProblemSlots = {} /\ ~CommandLineFileMissing)
        /\ MergedFrom(config, kubeConfigFiles)

\* What holds of Load in place of C8: the aggregate is nil exactly when
\* there is no problem and no candidate path at all, also of a file that
\* does not exist, has a directory that cannot be made absolute (C6).
C8_NilUnlessReported ==
    Done =>
        /\ \A f \in Files :
              LoadFromFile(f).kind = "bad" =>
                  Cardinality({j \in DOMAIN errlist : errlist[j] = LoadError(f)})
                      = Cardinality({i \in BadSlots : kubeConfigFiles[i] = f})
        /\ (errlist = <<>>) <=> (/\ BadSlots = {} /\ ~CommandLineFileMissing
                                  /\ \A i \in 1..Len(kubeConfigFiles) :
                                        Len(kubeConfigFiles[i]) > 0
                                           => HasAbsDir(kubeConfigFiles[i]))
        /\ MergedFrom(config, kubeConfigFiles)

\* C8 witness: an unreadable file outranks a loaded one; its error is
\* reported and the loaded file's content is returned.
C8_Witness ==
    /\ Done
    /\ \E i \in BadSlots : \E j \in (i + 1)..Len(kubeConfigFiles) :
          /\ Loaded(kubeConfigFiles[j])
          /\ DocOf(kubeConfigFiles[j]) = DocB
          /\ LoadError(kubeConfigFiles[i]) \in Range(errlist)
    /\ config.CurrentContext = "y"
    /\ "b" \in DOMAIN config.Clusters

\* C9: flattening order. The candidate list is the concatenation, in tier
\* order, of each tier's slots in the order command-line, environment
\* variable, current directory, home directory; its length is 4 times the
\* number of tiers.
C9_FlatteningOrder ==
    pc \in {"map", "scalar", "done"} =>
        /\ Len(kubeConfigFiles) = 4 * Len(rules)
        /\ \A t \in 1..Len(rules) :
              /\ kubeConfigFiles[4 * (t - 1) + 1] = rules[t].CommandLinePath
              /\ kubeConfigFiles[4 * (t - 1) + 2] = rules[t].EnvVarPath
              /\ kubeConfigFiles[4 * (t - 1) + 3] = rules[t].CurrentDirectoryPath
              /\ kubeConfigFiles[4 * (t - 1) + 4] = rules[t].HomeDirectoryPath

\* C9 witness: two different tiers were flattened into eight candidates.
C9_Witness ==
    /\ Done
    /\ Len(rules) = 2
    /\ rules[1] # rules[2]
    /\ Len(kubeConfigFiles) = 8
    /\ kubeConfigFiles[2] # kubeConfigFiles[3]

Reverse(s) == [i \in 1..Len(s) |-> s[Len(s) + 1 - i]]

\* C10: the tier list is the prepended tiers in reverse call order, then the
\* initial tiers, then the appended tiers in call order; Default() is the
\* first tier of that list, the most recently prepended one if any, and none
\* when the list is empty.
C10_RuleOrder ==
    /\ rules = Reverse(prepended) \o initial \o appended
    /\ Len(rules) = 0 => Default(rules) = None
    /\ Len(rules) > 0 => Default(rules) = <<(Reverse(prepended) \o initial \o appended)[1]>>
    /\ Len(prepended) > 0 => Default(rules) = <<prepended[Len(prepended)]>>

\* C10 witness: two different tiers were prepended, the second one is first.
C10_Witness ==
    /\ Len(prepended) = 2
    /\ prepended[1] # prepended[2]
    /\ rules[1] = prepended[2]
    /\ Default(rules) = <<prepended[2]>>


(***************************************************************************)
(* NewOpenShiftClientConfigLoadingRules and DefaultClientConfig            *)
(***************************************************************************)
Home == <<"/", "home", "u">>

OpenShiftConfigFileName == <<".openshiftconfig">>
OpenShiftConfigHomeDirFileName == <<".config", "openshift", ".config">>

\* values the environment variables and the flag take
EnvPaths == {<<>>} \cup Files

\* loadingRules.Default().EnvVarPath = v
SetDefaultEnvVarPath(rs, v) == [rs EXCEPT ![1].EnvVarPath = v]

\* the list PrependRule leaves
Prepended(rs, t) == <<t>> \o rs

\* variant of NewOpenShiftClientConfigLoadingRules: KUBECONFIG is set on
\* Default() after the OpenShift tier was prepended
NewOpenShiftRulesEnvAfterPrepend(e) ==
    SetDefaultEnvVarPath(
        Prepended(NewClientConfigLoadingRules,
                  Rule(<<>>, e.OPENSHIFTCONFIG, OpenShiftConfigFileName,
                       Home \o OpenShiftConfigHomeDirFileName)),
        e.KUBECONFIG)

NewOpenShiftClientConfigLoadingRules(e) ==
    LET loadingRules == SetDefaultEnvVarPath(NewClientConfigLoadingRules, e.KUBECONFIG)
    IN  Prepended(loadingRules,
                  Rule(<<>>, e.OPENSHIFTCONFIG, OpenShiftConfigFileName,
                       Home \o OpenShiftConfigHomeDirFileName))

BuildOpenShiftRules ==
    /\ pc = "new"
    /\ rules' = NewOpenShiftClientConfigLoadingRules(environ)
    /\ initial' = rules'
    /\ pc' = "built"
    /\ UNCHANGED <<prepended, appended, fs, changed, kubeConfigFiles, idx, mapConfig,
                   nonMapConfig, config, errlist, resolved, auxVars>>

\* DefaultClientConfig: the --config flag is bound on Default().CommandLinePath
BindConfigFlag ==
    /\ pc = "built"
    /\ rules' = [rules EXCEPT ![1].CommandLinePath = flagConfig]
    /\ initial' = rules'
    /\ pc' = "rules"
    /\ UNCHANGED <<prepended, appended, fs, changed, kubeConfigFiles, idx, mapConfig,
                   nonMapConfig, config, errlist, resolved, auxVars>>

InitOS ==
    /\ rules = <<>>
    /\ initial = <<>>
    /\ prepended = <<>>
    /\ appended = <<>>
    /\ fs \in [Files -> {Absent, Holds(DocA), Holds(DocB)}]
    /\ pc = "new"
    /\ kubeConfigFiles = <<>>
    /\ idx = 0
    /\ mapConfig = NewConfig
    /\ nonMapConfig = NewConfig
    /\ config = NewConfig
    /\ errlist = <<>>
    /\ resolved = <<>>
    /\ changed = {}
    /\ rpDir = <<>>
    /\ rpPath = <<>>
    /\ rpOut = <<>>
    /\ rpPc = "off"
    /\ CodecIdle
    /\ environ \in [KUBECONFIG : EnvPaths, OPENSHIFTCONFIG : EnvPaths]
    /\ flagConfig \in EnvPaths
    /\ ChallengeIdle
    /\ StoreIdle
    /\ setup = <<>>
    /\ other = OtherIdle
    /\ wd \in WorkingDirs

NextOS ==
    \/ BuildOpenShiftRules
    \/ BindConfigFlag
    \/ LoadBegin
    \/ MapPassStep
    \/ MapPassEnd
    \/ ScalarPassStep
    \/ Combine

SpecOS == InitOS /\ [][NextOS]_vars

\* C11: with the OpenShift rules and the --config flag bound on Default(),
\* the candidates are, in priority order: the flag path, the OPENSHIFTCONFIG
\* path, .openshiftconfig, ~/.config/openshift/.config, then (after the Kube
\* tier's empty command-line slot) the KUBECONFIG path, .kubeconfig and
\* ~/.kube/.kubeconfig; the KUBECONFIG value stays on the Kube tier.
C11_OpenShiftPriorityOrder ==
    pc \in {"map", "scalar", "done"} =>
        /\ kubeConfigFiles =
              <<flagConfig, environ.OPENSHIFTCONFIG, <<".openshiftconfig">>,
                <<"/", "home", "u", ".config", "openshift", ".config">>,
                <<>>, environ.KUBECONFIG, <<".kubeconfig">>,
                <<"/", "home", "u", ".kube", ".kubeconfig">> >>
        /\ rules[2].EnvVarPath = environ.KUBECONFIG
        /\ rules[1].EnvVarPath = environ.OPENSHIFTCONFIG

\* C11 witness: flag, OPENSHIFTCONFIG and KUBECONFIG name three different
\* files; the file named by OPENSHIFTCONFIG outranks the one named by
\* KUBECONFIG in the loaded document.
C11_Witness ==
    /\ Done
    /\ flagConfig = FlagFile /\ ~Exists(FlagFile)
    /\ environ.OPENSHIFTCONFIG = CurDirFile
    /\ environ.KUBECONFIG = HomeFile
    /\ fs[CurDirFile] = Holds(DocB) /\ fs[HomeFile] = Holds(DocA)
    /\ config.CurrentContext = "y"
    /\ config.Clusters["a"].Server = "https://h2"


(***************************************************************************)
(* challengingClient                                                       *)
(***************************************************************************)
\* requests one call of Do may send before the model stops following it
MaxRequests == 3

StatusUnauthorized == 401

\* header values are sequences of tokens: a whitespace character, a
\* quotation mark, a run of word characters, or another piece of text
SpaceTokens == {" "}
WordTokens == {"origin", "my", "realm", "Basic", "basic", "Bearer"}

BasicOrigin == <<"Basic", " ", "realm=", "\"", "origin", "\"">>
BasicTight == <<" ", "Basic", "realm=", "\"", "my", "realm", "\"", ",">>
BearerOrigin == <<"Bearer", " ", "realm=", "\"", "origin", "\"">>
LowerBasic == <<"basic", " ", "realm=", "\"", "origin", "\"">>
BasicNoRealm == <<"Basic", " ", "realm=", "\"", "\"">>
BasicDashed == <<"Basic", " ", "realm=", "\"", "my", "-", "realm", "\"">>

\* a response carries at most one header name that folds to WWW-Authenticate
Headers ==
    { EmptyMap,
      "WWW-Authenticate" :> <<BasicOrigin>>,
      "www-authenticate" :> <<BasicOrigin>>,
      "WWW-Authenticate" :> <<BearerOrigin, BasicTight>>,
      "WWW-Authenticate" :> <<BearerOrigin>>,
      "WWW-Authenticate" :> <<LowerBasic>>,
      "WWW-Authenticate" :> <<BasicNoRealm>>,
      "Authorization" :> <<BasicOrigin>>,
      ("Www-Authenticate" :> <<BasicDashed>>) @@ ("Authorization" :> <<BasicOrigin>>) }

Statuses == {200, 401, 403}

Responses == [StatusCode : Statuses, Header : Headers]

\* error texts are sequences of pieces of text
ErrTexts ==
    { <<"Get https://h: ", "x509: ", "certificate signed by unknown authority">>,
      <<"no server found for", " h">>,
      <<"no server found for", " h: ", "certificate signed by unknown authority">>,
      <<"dial tcp: ", "connection refused">> }

NetError(text) == [text |-> text]

\* what delegate.Do can return
Answers ==
    {[resp |-> r, err |-> None] : r \in Responses}
    \cup {[resp |-> None, err |-> NetError(t)] : t \in ErrTexts}

\* a request body is an io.ReadCloser: left is what a read of it still
\* yields; a request without a body yields nothing
NewReader(data) == [left |-> data]
NoBody == NewReader("")

\* the body after the transport sent the request: read to the end and closed
Drained(body) == [body EXCEPT !.left = ""]

\* the requests given to Do: a request without a body, or a request whose
\* body has not been read
Requests ==
    { [Method |-> "GET", URL |-> "/oauth/authorize", Header |-> {"X-CSRF-Token"},
       Body |-> NoBody],
      [Method |-> "POST", URL |-> "/oauth/token", Header |-> {"Content-Type"},
       Body |-> NewReader("grant_type=password")] }

\* what the delegate puts on the wire for a request: its method, URL and
\* headers, and the bytes its body yields at that moment
OnTheWire(req) ==
    [Method |-> req.Method, URL |-> req.URL, Header |-> req.Header,
     Body |-> req.Body.left]

\* resp.Request, the request that obtained the response: the request
\* given to the delegate, its body now read by the transport, or, when the
\* delegate followed a redirect, the request it built for the new
\* location, a GET without a body
SentRequest(req, redirected) ==
    IF redirected
    THEN [Method |-> "GET", URL |-> "/login", Header |-> {}, Body |-> NoBody]
    ELSE [req EXCEPT !.Body = Drained(req.Body)]

Readers == {"tty", "file", "buffer"}
TypedNames == {"", "bob"}
TypedPasswords == {"", "pw"}

DefaultRoundTripper == [kind |-> "default"]

\* variant of NewBasicAuthRoundTripper: the wrapper goes around the transport
\* the delegate has at that moment
NewBasicAuthRoundTripperStacked(username, password, rt) ==
    [kind |-> "basic", username |-> username, password |-> password,
     rt |-> client.delegate.Transport]

NewBasicAuthRoundTripper(username, password, rt) ==
    [kind |-> "basic", username |-> username, password |-> password, rt |-> rt]

\* strings.Contains over pieces of text
Contains(text, piece) == \E i \in 1..Len(text) : text[i] = piece

CertificateAuthorityUnknown == [reason |-> 2, msg |-> "certificateAuthorityUnknownMsg"]
NotConfigured == [reason |-> 1, msg |-> "notConfiguredMsg"]

\* variant of WrapClientErrors: the "no server found for" case is missing
WrapClientErrorsCertOnly(err) ==
    IF err # None /\ Contains(err.text, "certificate signed by unknown authority")
    THEN CertificateAuthorityUnknown
    ELSE err

WrapClientErrors(err) ==
    IF err # None
    THEN CASE Contains(err.text, "certificate signed by unknown authority") ->
                  CertificateAuthorityUnknown
           [] Contains(err.text, "no server found for") -> NotConfigured
           [] OTHER -> err
    ELSE err

ToLower ==
    ("WWW-Authenticate" :> "www-authenticate") @@ ("www-authenticate" :> "www-authenticate")
    @@ ("Www-Authenticate" :> "www-authenticate") @@ ("Authorization" :> "authorization")

EqualFold(a, b) == ToLower[a] = ToLower[b]

\* first position from i on whose token is not in S
RECURSIVE SkipWhile(_, _, _)
SkipWhile(v, i, S) ==
    IF i <= Len(v) /\ v[i] \in S THEN SkipWhile(v, i + 1, S) ELSE i

\* basicAuthPattern matched with its literal Basic at position b: the
\* position of the closing quotation mark, 0 when there is no match
MatchBasicAt(v, b) ==
    IF v[b] # "Basic" THEN 0
    ELSE LET j == SkipWhile(v, b + 1, SpaceTokens)
         IN  IF j + 1 <= Len(v) /\ v[j] = "realm=" /\ v[j + 1] = "\""
             THEN LET k == SkipWhile(v, j + 2, WordTokens)
                  IN  IF k > j + 2 /\ k <= Len(v) /\ v[k] = "\"" THEN k ELSE 0
             ELSE 0

\* basicAuthRegex.FindAllStringSubmatch(v, 1): <<>> for nil, otherwise the
\* one-element list holding the captured realm of the leftmost match
FindAllStringSubmatch(v) ==
    LET starts == {b \in 1..Len(v) : MatchBasicAt(v, b) > 0}
    IN  IF starts = {} THEN <<>>
        ELSE LET b == CHOOSE x \in starts : \A y \in starts : x <= y
                 k == MatchBasicAt(v, b)
                 q == CHOOSE x \in b..k : v[x] = "\"" /\ \A y \in b..(x - 1) : v[y] # "\""
             IN  << SubSeq(v, q + 1, k - 1) >>

\* variant of isBasicAuthChallenge: every response counts as a challenge
isBasicAuthChallengeAlways(resp) == [wantsBasicAuth |-> TRUE, realm |-> <<>>]

isBasicAuthChallenge(resp) ==
    LET pairs == UNION {{<<h, i>> : i \in 1..Len(resp.Header[h])} : h \in DOMAIN resp.Header}
        hits == {x \in pairs :
                    /\ EqualFold(x[1], "WWW-Authenticate")
                    /\ FindAllStringSubmatch(resp.Header[x[1]][x[2]]) # <<>>}
    IN  IF hits = {} THEN [wantsBasicAuth |-> FALSE, realm |-> <<>>]
        ELSE LET first == CHOOSE x \in hits : \A y \in hits : x[2] <= y[2]
             IN  [wantsBasicAuth |-> TRUE,
                  realm |-> FindAllStringSubmatch(resp.Header[first[1]][first[2]])[1]]

\* variant of util.IsTerminal: any *os.File counts as a terminal
IsTerminalAnyFile(r) == r \in {"tty", "file"}

\* util.IsTerminal: the reader is an *os.File and its descriptor is a terminal
IsTerminal(r) == r = "tty"

NewChallengingClient(reader, username, password) ==
    [delegate |-> [Transport |-> DefaultRoundTripper],
     reader |-> reader,
     defaultUsername |-> username,
     defaultPassword |-> password,
     defaultRoundTripper |-> DefaultRoundTripper]

\* variant of ReplayRequest: the request Do was given is sent again
ReplayOriginal(req, respRequest) == req

\* the request of the recursive call: resp.Request
ReplayRequest(req, respRequest) == respRequest

\* one activation of Do: the delegate sends the request through its current
\* transport and gets ans; typedName and typedPassword are what the
\* reader yields when prompted
Do ==
    /\ chPc = "do"
    /\ Len(sent) < MaxRequests
    /\ \E ans \in Answers, typedName \in TypedNames, typedPassword \in TypedPasswords,
          redirected \in BOOLEAN :
        /\ sent' = Append(sent, client.delegate.Transport)
        /\ answers' = Append(answers, ans)
        /\ IF ans.err # None
           THEN /\ result' = [resp |-> None, err |-> WrapClientErrors(ans.err)]
                /\ chPc' = "ret"
                /\ UNCHANGED <<client, prompts, reqs>>
           ELSE IF /\ ans.resp.StatusCode = StatusUnauthorized
                   /\ isBasicAuthChallenge(ans.resp).wantsBasicAuth
                THEN LET uDefaulted == client.defaultUsername # ""
                         pDefaulted == client.defaultPassword # ""
                         ask == IsTerminal(client.reader) /\ ~(uDefaulted /\ pDefaulted)
                         username == IF ask /\ ~uDefaulted THEN typedName
                                     ELSE client.defaultUsername
                         password == IF ask /\ ~pDefaulted THEN typedPassword
                                     ELSE client.defaultPassword
                     IN  /\ prompts' = prompts
                                \o (IF ask /\ ~uDefaulted THEN <<"Username: ">> ELSE <<>>)
                                \o (IF ask /\ ~pDefaulted THEN <<"Password: ">> ELSE <<>>)
                         /\ client' = [client EXCEPT !.delegate.Transport =
                                NewBasicAuthRoundTripper(username, password,
                                                         client.defaultRoundTripper)]
                         /\ reqs' =
                               LET req == reqs[Len(reqs)].arg
                                   respRequest == SentRequest(req, redirected)
                               IN  [reqs EXCEPT ![Len(reqs)] =
                                        [arg |-> req, sent |-> respRequest,
                                         wire |-> IF redirected
                                                  THEN OnTheWire(respRequest)
                                                  ELSE OnTheWire(req)]]
                                   \o <<[arg |-> ReplayRequest(req, respRequest)]>>
                         /\ chPc' = "do"
                         /\ UNCHANGED result
                ELSE /\ result' = [resp |-> ans.resp, err |-> None]
                     /\ chPc' = "ret"
                     /\ UNCHANGED <<client, prompts, reqs>>
    /\ UNCHANGED <<ruleVars, fs, loadVars, pathVars, codecVars, osVars, setup, other, wd, stVars>>

\* an activation of Do after MaxRequests requests: the same code, the
\* histories being no longer extended; the delegate returns a Basic
\* challenge, another response or an error
DoBeyond ==
    /\ chPc = "do"
    /\ Len(sent) >= MaxRequests
    /\ \E ans \in {a \in Answers :
                      \/ a.err = NetError(<<"dial tcp: ", "connection refused">>)
                      \/ a.resp = [StatusCode |-> 200, Header |-> EmptyMap]
                      \/ a.resp = [StatusCode |-> StatusUnauthorized,
                                   Header |-> ("WWW-Authenticate" :> <<BasicOrigin>>)]},
          typedName \in TypedNames, typedPassword \in TypedPasswords :
        IF ans.err # None
        THEN /\ result' = [resp |-> None, err |-> WrapClientErrors(ans.err)]
             /\ chPc' = "ret"
             /\ UNCHANGED client
        ELSE IF /\ ans.resp.StatusCode = StatusUnauthorized
                /\ isBasicAuthChallenge(ans.resp).wantsBasicAuth
             THEN LET uDefaulted == client.defaultUsername # ""
                      pDefaulted == client.defaultPassword # ""
                      ask == IsTerminal(client.reader) /\ ~(uDefaulted /\ pDefaulted)
                      username == IF ask /\ ~uDefaulted THEN typedName
                                  ELSE client.defaultUsername
                      password == IF ask /\ ~pDefaulted THEN typedPassword
                                  ELSE client.defaultPassword
                  IN  /\ client' = [client EXCEPT !.delegate.Transport =
                             NewBasicAuthRoundTripper(username, password,
                                                      client.defaultRoundTripper)]
                      /\ chPc' = "do"
                      /\ UNCHANGED result
             ELSE /\ result' = [resp |-> ans.resp, err |-> None]
                  /\ chPc' = "ret"
                  /\ UNCHANGED client
    /\ UNCHANGED <<ruleVars, fs, loadVars, pathVars, codecVars, osVars, setup, other, wd, stVars,
                   sent, answers, prompts, reqs>>

InitChallenge ==
    /\ rules = <<>>
    /\ initial = <<>>
    /\ prepended = <<>>
    /\ appended = <<>>
    /\ fs = [f \in Files |-> Absent]
    /\ pc = "off"
    /\ kubeConfigFiles = <<>>
    /\ idx = 0
    /\ mapConfig = NewConfig
    /\ nonMapConfig = NewConfig
    /\ config = NewConfig
    /\ errlist = <<>>
    /\ resolved = <<>>
    /\ changed = {}
    /\ rpDir = <<>>
    /\ rpPath = <<>>
    /\ rpOut = <<>>
    /\ rpPc = "off"
    /\ CodecIdle
    /\ OsIdle
    /\ StoreIdle
    /\ setup = <<>>
    /\ other = OtherIdle
    /\ wd = WorkDir
    /\ \E r \in Readers, u \in {"", "alice"}, p \in {"", "secret"} :
           client = NewChallengingClient(r, u, p)
    /\ sent = <<>>
    /\ answers = <<>>
    /\ prompts = <<>>
    /\ result = <<>>
    /\ chPc = "do"
    /\ reqs \in {<<[arg |-> r]>> : r \in Requests}

NextChallenge == Do

SpecChallenge == InitChallenge /\ [][NextChallenge]_vars

\* Do without a bound on the number of requests: a call that was started
\* goes on, and the server answers every request in the end
NextChallengeLive == Do \/ DoBeyond

SpecChallengeLive ==
    InitChallenge /\ [][NextChallengeLive]_vars /\ WF_vars(Do) /\ WF_vars(DoBeyond)


(***************************************************************************)
(* ConfigStore: GetConfigFromDefaultLocations, CreateNewEmptyConfig,       *)
(* UpdateConfigFile and WriteToFile                                        *)
(***************************************************************************)
OpenShiftHomeFile == Home \o OpenShiftConfigHomeDirFileName

StoreFiles == {FlagFile, OpenShiftConfigFileName, OpenShiftHomeFile, CurDirFile, HomeFile}

StoreFoo ==
    [Clusters |-> ("old:443" :> Cluster("https://old:443", FALSE, <<>>)),
     AuthInfos |-> ("alice" :> AuthInfo("t0", <<>>, <<>>, <<>>)),
     Contexts |-> ("foo" :> Context("old:443", "alice", "ns0")),
     CurrentContext |-> "foo"]

StoreBob ==
    [Clusters |-> ("new:8443" :> Cluster("https://new:8443", TRUE, <<"old-ca.crt">>)),
     AuthInfos |-> ("bob" :> AuthInfo("t1", <<"bob.crt">>, <<>>, <<>>))
                   @@ ("alice" :> AuthInfo("t0", <<>>, <<>>, <<>>)),
     Contexts |-> ("new:8443-bob" :> Context("new:8443", "bob", "ns0"))
                  @@ ("foo" :> Context("new:8443", "alice", "")),
     CurrentContext |-> "foo"]

StoreFileStates == {Absent, Unreadable, Holds(StoreFoo), Holds(StoreBob)}

\* what the caller passes: the identity, and what clientCfg yields
Logins ==
    [username : {"", "bob"},
     token : {"t2"},
     clientConfig : [Host : {"https://new:8443", "https://old:443"},
                     Insecure : {FALSE},
                     CAFile : {<<"ca.crt">>}],
     namespace : {"", "ns1"}]

\* a file cut short by a write that failed after the file was truncated
Partial == [kind |-> "partial"]

\* ioutil.WriteFile and the encoder: completes, fails to encode, fails to
\* open the file, or fails after the file was opened and truncated
WriteOutcomes == {"ok", "encode", "open", "short"}

StoreError(kind) == [kind |-> kind]

\* variant of tryToLoad: a file that cannot be decoded gives a store with
\* an empty document
tryToLoadEmptyOnError(path, providerEngine, providerLocation) ==
    IF Len(path) > 0
    THEN IF LoadFromFile(path).kind # "absent"
         THEN [store |-> [Config |-> IF LoadFromFile(path).kind = "doc"
                                      THEN LoadFromFile(path).doc ELSE NewConfig,
                          Path |-> path,
                          providerEngine |-> providerEngine,
                          providerLocation |-> providerLocation],
               err |-> None]
         ELSE [store |-> None, err |-> StoreError("Config file not found in path")]
    ELSE [store |-> None, err |-> StoreError("Path was empty")]

tryToLoad(path, providerEngine, providerLocation) ==
    IF Len(path) > 0
    THEN IF LoadFromFile(path).kind = "doc"
         THEN [store |-> [Config |-> LoadFromFile(path).doc, Path |-> path,
                          providerEngine |-> providerEngine,
                          providerLocation |-> providerLocation],
               err |-> None]
         ELSE [store |-> None, err |-> StoreError("Config file not found in path")]
    ELSE [store |-> None, err |-> StoreError("Path was empty")]

\* variant of Locations: the Kube locations come before the OpenShift ones
LocationsKubeFirst(e) ==
    << [path |-> e.KUBECONFIG, engine |-> "fromkube", location |-> "envvar"],
       [path |-> <<".kubeconfig">>, engine |-> "fromkube", location |-> "localdir"],
       [path |-> Home \o <<".kube", ".kubeconfig">>, engine |-> "fromkube",
        location |-> "homedir"],
       [path |-> e.OPENSHIFTCONFIG, engine |-> "fromopenshift", location |-> "envvar"],
       [path |-> OpenShiftConfigFileName, engine |-> "fromopenshift", location |-> "localdir"],
       [path |-> OpenShiftHomeFile, engine |-> "fromopenshift", location |-> "homedir"] >>

\* the locations tried without the flag, in order
Locations(e) ==
    << [path |-> e.OPENSHIFTCONFIG, engine |-> "fromopenshift", location |-> "envvar"],
       [path |-> OpenShiftConfigFileName, engine |-> "fromopenshift", location |-> "localdir"],
       [path |-> OpenShiftHomeFile, engine |-> "fromopenshift", location |-> "homedir"],
       [path |-> e.KUBECONFIG, engine |-> "fromkube", location |-> "envvar"],
       [path |-> <<".kubeconfig">>, engine |-> "fromkube", location |-> "localdir"],
       [path |-> Home \o <<".kube", ".kubeconfig">>, engine |-> "fromkube",
        location |-> "homedir"] >>

RECURSIVE FirstLoadable(_)
FirstLoadable(locs) ==
    IF locs = <<>>
    THEN [store |-> None, err |-> StoreError("ConfigStoreNotFoundError"), tried |-> <<>>]
    ELSE LET t == tryToLoad(locs[1].path, locs[1].engine, locs[1].location)
             read == IF Len(locs[1].path) > 0 THEN <<locs[1].path>> ELSE <<>>
         IN  IF t.err = None
             THEN [store |-> t.store, err |-> None, tried |-> read]
             ELSE [FirstLoadable(Tail(locs)) EXCEPT !.tried = read \o @]

\* variant of GetConfigFromDefaultLocations: when the file of the flag does
\* not load, the other locations are tried
GetConfigFromDefaultLocationsFallThrough(flag, e) ==
    FirstLoadable(<<[path |-> flag, engine |-> "fromopenshift", location |-> "flag"]>>
                  \o Locations(e))

\* store, error and the paths read on the way
GetConfigFromDefaultLocations(flag, e) ==
    IF Len(flag) > 0
    THEN LET t == tryToLoad(flag, "fromopenshift", "flag")
         IN  [store |-> t.store, err |-> t.err, tried |-> <<flag>>]
    ELSE FirstLoadable(Locations(e))

\* flagtypes.Addr{Value: host}.Default(): host and port of the server URL
AddrDefault(value) ==
    CASE value = "https://new:8443" -> [Host |-> "new", Port |-> "8443"]
      [] value = "https://old:443" -> [Host |-> "old", Port |-> "443"]
      [] value = "https://localhost:8443" -> [Host |-> "localhost", Port |-> "8443"]

\* the document UpdateConfigFile builds, given the names it computed
BuildWith(credentialsName, token, clientConfig, namespace, currentContext) ==
    LET serverAddr == AddrDefault(clientConfig.Host)
        clusterName == serverAddr.Host \o ":" \o serverAddr.Port
        contextName == clusterName \o "-" \o credentialsName
    IN  [Clusters |-> (clusterName :> Cluster(clientConfig.Host, clientConfig.Insecure,
                                              clientConfig.CAFile)),
         AuthInfos |-> (credentialsName :> AuthInfo(token, <<>>, <<>>, <<>>)),
         Contexts |-> (contextName :> Context(clusterName, credentialsName, namespace)),
         CurrentContext |-> IF currentContext THEN contextName ELSE ""]

\* variant of BuildConfig: no "osc-login" for an empty username
BuildConfigNoFallback(username, token, clientConfig, namespace) ==
    BuildWith(username, token, clientConfig, namespace, TRUE)

\* variant of BuildConfig: config.CurrentContext is not set
BuildConfigNoCurrentContext(username, token, clientConfig, namespace) ==
    BuildWith(IF Len(username) = 0 THEN "osc-login" ELSE username,
              token, clientConfig, namespace, FALSE)

\* variant of BuildConfig: credentials.Token is not set
BuildConfigNoToken(username, token, clientConfig, namespace) ==
    BuildWith(IF Len(username) = 0 THEN "osc-login" ELSE username,
              "", clientConfig, namespace, TRUE)

\* UpdateConfigFile: the local document config
BuildConfig(username, token, clientConfig, namespace) ==
    LET credentialsName == IF Len(username) = 0 THEN "osc-login" ELSE username
    IN  BuildWith(credentialsName, token, clientConfig, namespace, TRUE)

\* the two passes of Load over the candidates <<config, configToModify>>:
\* the new document first in the map pass and last in the scalar pass
MergeConfig(rawMergedConfig, configToModify, newConfig) ==
    LET mapPass == Merge(Merge(NewConfig, newConfig), configToModify)
        scalarPass == Merge(Merge(NewConfig, configToModify), newConfig)
    IN  Merge(Merge(NewConfig, mapPass), scalarPass)

\* a Go map that was never made; Write and the merges treat it as a map
\* without entries
NilMap == [nil |-> TRUE]

Entries(m) == IF m = NilMap THEN EmptyMap ELSE m

\* the Codec leaves a field that holds its zero value out of the content
OmitEmpty(key, value, zero) == IF value = zero THEN EmptyMap ELSE key :> value

\* a key that is missing from the content gives the zero value
KeyOr(w, key, zero) == IF key \in DOMAIN w THEN w[key] ELSE zero

\* Codec.Encode: the entries under the keys of the wire contract. The keys
\* of clusters, users and contexts are those the specification lists as the
\* contract; the legacy auth-path, which an AuthInfo has and which Load
\* resolves in the documents it has read from files (resolveLocalPaths),
\* is written under that name.
EncodeCluster(c) ==
    ("server" :> c.Server)
    @@ OmitEmpty("insecure-skip-tls-verify", c.InsecureSkipTLSVerify, FALSE)
    @@ OmitEmpty("certificate-authority", c.CertificateAuthority, <<>>)

EncodeAuthInfo(a) ==
    OmitEmpty("token", a.Token, "")
    @@ OmitEmpty("client-certificate", a.ClientCertificate, <<>>)
    @@ OmitEmpty("client-key", a.ClientKey, <<>>)
    @@ OmitEmpty("auth-path", a.AuthPath, <<>>)

\* variant of EncodeContext: the user of a context under the key auth-info
EncodeContextAuthInfoKey(c) ==
    ("cluster" :> c.Cluster) @@ ("auth-info" :> c.AuthInfo)
    @@ OmitEmpty("namespace", c.Namespace, "")

EncodeContext(c) ==
    ("cluster" :> c.Cluster) @@ ("user" :> c.AuthInfo)
    @@ OmitEmpty("namespace", c.Namespace, "")

\* Codec.DecodeInto: the fields read from the keys of the wire contract
DecodeCluster(w) ==
    [Server |-> KeyOr(w, "server", ""),
     InsecureSkipTLSVerify |-> KeyOr(w, "insecure-skip-tls-verify", FALSE),
     CertificateAuthority |-> KeyOr(w, "certificate-authority", <<>>)]

DecodeAuthInfo(w) ==
    [Token |-> KeyOr(w, "token", ""),
     ClientCertificate |-> KeyOr(w, "client-certificate", <<>>),
     ClientKey |-> KeyOr(w, "client-key", <<>>),
     AuthPath |-> KeyOr(w, "auth-path", <<>>)]

DecodeContext(w) ==
    [Cluster |-> KeyOr(w, "cluster", ""),
     AuthInfo |-> KeyOr(w, "user", ""),
     Namespace |-> KeyOr(w, "namespace", "")]

\* variant of Write: the user of a context is written under the key auth-info
WriteContextAuthInfoKey(cfg) ==
    [kind |-> "Config", apiVersion |-> "v1",
     doc |-> ("clusters" :> [name \in DOMAIN Entries(cfg.Clusters) |->
                               EncodeCluster(cfg.Clusters[name])])
             @@ ("users" :> [name \in DOMAIN Entries(cfg.AuthInfos) |->
                               EncodeAuthInfo(cfg.AuthInfos[name])])
             @@ ("contexts" :> [name \in DOMAIN Entries(cfg.Contexts) |->
                                  EncodeContextAuthInfoKey(cfg.Contexts[name])])
             @@ OmitEmpty("current-context", cfg.CurrentContext, "")]

\* Write: the content Codec.Encode and JSONToYAML give for the document; a
\* map that is nil and a map without entries are written alike
Write(cfg) ==
    [kind |-> "Config", apiVersion |-> "v1",
     doc |-> ("clusters" :> [name \in DOMAIN Entries(cfg.Clusters) |->
                               EncodeCluster(cfg.Clusters[name])])
             @@ ("users" :> [name \in DOMAIN Entries(cfg.AuthInfos) |->
                               EncodeAuthInfo(cfg.AuthInfos[name])])
             @@ ("contexts" :> [name \in DOMAIN Entries(cfg.Contexts) |->
                                  EncodeContext(cfg.Contexts[name])])
             @@ OmitEmpty("current-context", cfg.CurrentContext, "")]

\* Load: the document decoded from the content of a file; the decoder
\* makes the three maps and fills them with the entries of the content
Load(data) ==
    IF data.kind = "Config" /\ data.apiVersion = "v1"
    THEN [config |->
            [Clusters |-> [name \in DOMAIN KeyOr(data.doc, "clusters", EmptyMap) |->
                             DecodeCluster(data.doc["clusters"][name])],
             AuthInfos |-> [name \in DOMAIN KeyOr(data.doc, "users", EmptyMap) |->
                              DecodeAuthInfo(data.doc["users"][name])],
             Contexts |-> [name \in DOMAIN KeyOr(data.doc, "contexts", EmptyMap) |->
                             DecodeContext(data.doc["contexts"][name])],
             CurrentContext |-> KeyOr(data.doc, "current-context", "")],
          err |-> None]
    ELSE [config |-> None, err |-> StoreError("decode")]

\* a file with the given content, as LoadFromFile finds it
FileWith(content) ==
    IF Load(content).err = None THEN Holds(Load(content).config) ELSE Unreadable

\* variant of WriteToFile: the document is merged with the one in the file
WriteToFileMerging(files, perms, cfg, filename, outcome) ==
    [fs |-> IF outcome = "ok"
            THEN (filename :> (IF filename \in DOMAIN files /\ files[filename].kind = "doc"
                               THEN Holds(Merge(cfg, files[filename].doc))
                               ELSE Holds(cfg))) @@ files
            ELSE files,
     perm |-> perms,
     err |-> IF outcome = "ok" THEN None ELSE StoreError(outcome)]

\* WriteToFile on the file system files with permissions perms
WriteToFile(files, perms, cfg, filename, outcome) ==
    LET mode == IF filename \notin DOMAIN files \/ files[filename].kind = "absent"
                THEN "0600"
                ELSE perms[filename]
    IN  CASE outcome = "ok" ->
               [fs |-> (filename :> FileWith(Write(cfg))) @@ files,
                perm |-> (filename :> mode) @@ perms,
                err |-> None]
          [] outcome = "short" ->
               [fs |-> (filename :> Partial) @@ files,
                perm |-> (filename :> mode) @@ perms,
                err |-> StoreError("write")]
          [] outcome = "open" ->
               [fs |-> files, perm |-> perms, err |-> StoreError("open")]
          [] outcome = "encode" ->
               [fs |-> files, perm |-> perms, err |-> StoreError("encode")]

WriteRecord(cfg, filename, w) == [config |-> cfg, filename |-> filename, err |-> w.err]

\* the errors OscClientSetup.MergeConfig returns before it looks for a store
InsufficientData == StoreError("Insufficient data to merge configuration.")
ClientConfigError == StoreError("ClientConfig")

\* ClientConfig() loads the candidate files again and returns the aggregate
\* of Load when there is one: whether it succeeds
ClientConfigOutcomes == BOOLEAN

\* OscClientSetup.MergeConfig up to the choice of the store, when no other
\* process touches the files: the reads of the locations are one step
GetConfigStore ==
    /\ ucPc = "start"
    /\ \E ok \in ClientConfigOutcomes :
        IF login = None
        THEN /\ ucErr' = InsufficientData
             /\ ucPc' = "failed"
             /\ UNCHANGED <<configStore, tried>>
        ELSE IF ~ok
        THEN /\ ucErr' = ClientConfigError
             /\ ucPc' = "failed"
             /\ UNCHANGED <<configStore, tried>>
        ELSE LET r == GetConfigFromDefaultLocations(flagConfig, environ)
             IN  /\ IF r.err = None
                    THEN configStore' = r.store /\ ucPc' = "store" /\ UNCHANGED ucErr
                    ELSE IF r.err = StoreError("ConfigStoreNotFoundError")
                         THEN ucPc' = "create" /\ UNCHANGED <<configStore, ucErr>>
                         ELSE ucErr' = r.err /\ ucPc' = "failed"
                              /\ UNCHANGED configStore
                 /\ tried' = r.tried
    /\ UNCHANGED <<ruleVars, fs, loadVars, pathVars, codecVars, osVars, setup, other, wd, chVars,
                   perm, login, built, writes, project>>

CreateNewEmptyConfig ==
    /\ ucPc = "create"
    /\ \E mkdirAll \in {"ok", "fails"}, outcome \in WriteOutcomes :
        IF mkdirAll = "fails"
        THEN /\ ucErr' = StoreError("mkdir")
             /\ ucPc' = "failed"
             /\ UNCHANGED <<fs, perm, writes, configStore>>
        ELSE LET w == WriteToFile(fs, perm, NewConfig, OpenShiftHomeFile, outcome)
             IN  /\ fs' = w.fs
                 /\ perm' = w.perm
                 /\ writes' = Append(writes, WriteRecord(NewConfig, OpenShiftHomeFile, w))
                 /\ IF w.err # None
                    THEN ucErr' = w.err /\ ucPc' = "failed" /\ UNCHANGED configStore
                    ELSE LET t == tryToLoad(OpenShiftHomeFile, "fromopenshift", "homedir")'
                         IN  IF t.err = None
                             THEN configStore' = t.store /\ ucPc' = "store"
                                  /\ UNCHANGED ucErr
                             ELSE ucErr' = t.err /\ ucPc' = "failed"
                                  /\ UNCHANGED configStore
    /\ UNCHANGED <<ruleVars, loadVars, pathVars, codecVars, osVars, setup, other, wd, chVars, login, built, tried, project>>

\* the calls of UpdateConfigFile that can return an error before the write
Fallible == {"RawConfig", "ClientConfig", "Namespace", "MergeConfig"}

\* variant of UpdateConfigFile: the file is written before the errors are
\* looked at
UpdateConfigFileWriteFirst ==
    /\ ucPc = "store"
    /\ \E failing \in {"none"} \cup Fallible, outcome \in WriteOutcomes :
        LET new == BuildConfig(login.username, login.token, login.clientConfig,
                               login.namespace)
            configToWrite == MergeConfig(config, configStore.Config, new)
            w == WriteToFile(fs, perm, configToWrite, configStore.Path, outcome)
        IN  /\ built' = new
            /\ fs' = w.fs
            /\ perm' = w.perm
            /\ writes' = Append(writes, WriteRecord(configToWrite, configStore.Path, w))
            /\ ucErr' = IF failing # "none" THEN StoreError(failing) ELSE w.err
            /\ ucPc' = IF failing = "none" /\ w.err = None THEN "done" ELSE "failed"
    /\ UNCHANGED <<ruleVars, loadVars, pathVars, codecVars, osVars, setup, other, wd, chVars, login, configStore, tried, project>>

UpdateConfigFile ==
    /\ ucPc = "store"
    /\ \E failing \in {"none"} \cup Fallible, outcome \in WriteOutcomes :
        IF failing # "none"
        THEN /\ ucErr' = StoreError(failing)
             /\ ucPc' = "failed"
             /\ built' = IF failing = "MergeConfig"
                         THEN BuildConfig(login.username, login.token,
                                          login.clientConfig, login.namespace)
                         ELSE built
             /\ UNCHANGED <<fs, perm, writes>>
        ELSE LET rawMergedConfig == config
                 new == BuildConfig(login.username, login.token, login.clientConfig,
                                    login.namespace)
                 configToModify == configStore.Config
                 configToWrite == MergeConfig(rawMergedConfig, configToModify, new)
                 w == WriteToFile(fs, perm, configToWrite, configStore.Path, outcome)
             IN  /\ built' = new
                 /\ fs' = w.fs
                 /\ perm' = w.perm
                 /\ writes' = Append(writes, WriteRecord(configToWrite, configStore.Path, w))
                 /\ ucErr' = w.err
                 /\ ucPc' = IF w.err = None THEN "done" ELSE "failed"
    /\ UNCHANGED <<ruleVars, loadVars, pathVars, codecVars, osVars, setup, other, wd, chVars, login, configStore, tried, project>>

\* what a second invocation of the command line, run by another user,
\* passes to UpdateConfigFile
OtherLogin ==
    [username |-> "carol", token |-> "t9",
     clientConfig |-> [Host |-> "https://old:443", Insecure |-> FALSE, CAFile |-> <<>>],
     namespace |-> "ns9"]

\* the document the second invocation writes to the store it chose
OtherConfigToWrite ==
    MergeConfig(config, other.store.Config,
                BuildConfig(OtherLogin.username, OtherLogin.token,
                            OtherLogin.clientConfig, OtherLogin.namespace))

\* a file between os.OpenFile with O_TRUNC and the write
Truncated == [kind |-> "empty"]

\* ioutil.WriteFile, the open: the file is created or cut to no content
OpenFile(files, perms, filename) ==
    [fs |-> (filename :> Truncated) @@ files,
     perm |-> (filename :> IF filename \notin DOMAIN files
                              \/ files[filename].kind = "absent"
                           THEN "0600" ELSE perms[filename]) @@ perms]

\* ioutil.WriteFile, the write of content at the start of the open file:
\* what another writer wrote since the file was cut stays after the end of
\* content where it was longer (the contents here carry no length)
WriteFileOutcomes(file, content) ==
    IF file = Truncated \/ file = FileWith(content)
    THEN {FileWith(content)}
    ELSE {FileWith(content), [kind |-> "mixed", head |-> content, under |-> file]}

\* UpdateConfigFile up to the open of the store file by ioutil.WriteFile
UpdateConfigFileOpen ==
    /\ ucPc = "store"
    /\ \E failing \in {"none"} \cup Fallible, outcome \in {"ok", "encode", "open"} :
        LET new == BuildConfig(login.username, login.token, login.clientConfig,
                               login.namespace)
            configToWrite == MergeConfig(config, configStore.Config, new)
        IN  IF failing # "none"
            THEN /\ ucErr' = StoreError(failing)
                 /\ ucPc' = "failed"
                 /\ built' = IF failing = "MergeConfig" THEN new ELSE built
                 /\ UNCHANGED <<fs, perm, writes>>
            ELSE IF outcome # "ok"
            THEN LET w == WriteToFile(fs, perm, configToWrite, configStore.Path, outcome)
                 IN  /\ built' = new
                     /\ writes' = Append(writes,
                                         WriteRecord(configToWrite, configStore.Path, w))
                     /\ ucErr' = w.err
                     /\ ucPc' = "failed"
                     /\ UNCHANGED <<fs, perm>>
            ELSE LET o == OpenFile(fs, perm, configStore.Path)
                 IN  /\ built' = new
                     /\ fs' = o.fs
                     /\ perm' = o.perm
                     /\ ucPc' = "write"
                     /\ UNCHANGED <<writes, ucErr>>
    /\ UNCHANGED <<ruleVars, loadVars, pathVars, codecVars, osVars, setup, other, wd, chVars, login,
                   configStore, tried, project>>

\* UpdateConfigFile from the write to the open store file
UpdateConfigFileWrite ==
    /\ ucPc = "write"
    /\ LET configToWrite == MergeConfig(config, configStore.Config, built)
       IN  \/ \E file \in WriteFileOutcomes(fs[configStore.Path], Write(configToWrite)) :
                /\ fs' = (configStore.Path :> file) @@ fs
                /\ writes' = Append(writes, [config |-> configToWrite,
                                             filename |-> configStore.Path,
                                             err |-> None])
                /\ ucPc' = "done"
                /\ UNCHANGED ucErr
           \/ /\ fs' = (configStore.Path :> Partial) @@ fs
              /\ writes' = Append(writes, [config |-> configToWrite,
                                           filename |-> configStore.Path,
                                           err |-> StoreError("write")])
              /\ ucErr' = StoreError("write")
              /\ ucPc' = "failed"
    /\ UNCHANGED <<ruleVars, loadVars, pathVars, codecVars, osVars, setup, other, wd, chVars, perm, login,
                   configStore, built, tried, project>>

\* CreateNewEmptyConfig up to the open of the new file by ioutil.WriteFile:
\* os.MkdirAll, the encoding of the empty document and os.OpenFile (of
\* these the open alone changes a file)
CreateNewEmptyConfigOpen ==
    /\ ucPc = "create"
    /\ \E mkdirAll \in {"ok", "fails"}, outcome \in {"ok", "encode", "open"} :
        IF mkdirAll = "fails"
        THEN /\ ucErr' = StoreError("mkdir")
             /\ ucPc' = "failed"
             /\ UNCHANGED <<fs, perm, writes>>
        ELSE IF outcome # "ok"
        THEN LET w == WriteToFile(fs, perm, NewConfig, OpenShiftHomeFile, outcome)
             IN  /\ writes' = Append(writes, WriteRecord(NewConfig, OpenShiftHomeFile, w))
                 /\ ucErr' = w.err
                 /\ ucPc' = "failed"
                 /\ UNCHANGED <<fs, perm>>
        ELSE LET o == OpenFile(fs, perm, OpenShiftHomeFile)
             IN  /\ fs' = o.fs
                 /\ perm' = o.perm
                 /\ ucPc' = "cwrite"
                 /\ UNCHANGED <<writes, ucErr>>
    /\ UNCHANGED <<ruleVars, loadVars, pathVars, codecVars, osVars, setup, other, wd, chVars, login,
                   configStore, built, tried, project>>

\* CreateNewEmptyConfig: the write of the empty document to the open file
CreateNewEmptyConfigWrite ==
    /\ ucPc = "cwrite"
    /\ \/ \E file \in WriteFileOutcomes(fs[OpenShiftHomeFile], Write(NewConfig)) :
             /\ fs' = (OpenShiftHomeFile :> file) @@ fs
             /\ writes' = Append(writes, [config |-> NewConfig,
                                          filename |-> OpenShiftHomeFile,
                                          err |-> None])
             /\ ucPc' = "cread"
             /\ UNCHANGED ucErr
       \/ /\ fs' = (OpenShiftHomeFile :> Partial) @@ fs
          /\ writes' = Append(writes, [config |-> NewConfig,
                                       filename |-> OpenShiftHomeFile,
                                       err |-> StoreError("write")])
          /\ ucErr' = StoreError("write")
          /\ ucPc' = "failed"
    /\ UNCHANGED <<ruleVars, loadVars, pathVars, codecVars, osVars, setup, other, wd, chVars, perm, login,
                   configStore, built, tried, project>>

\* CreateNewEmptyConfig: tryToLoad reads back the file that was written
CreateNewEmptyConfigLoad ==
    /\ ucPc = "cread"
    /\ LET t == tryToLoad(OpenShiftHomeFile, "fromopenshift", "homedir")
       IN  IF t.err = None
           THEN configStore' = t.store /\ ucPc' = "store" /\ UNCHANGED ucErr
           ELSE ucErr' = t.err /\ ucPc' = "failed" /\ UNCHANGED configStore
    /\ UNCHANGED <<ruleVars, fs, loadVars, pathVars, codecVars, osVars, setup, other, wd, chVars, perm,
                   login, built, writes, tried, project>>

\* the position of an invocation that is about to call tryToLoad on the
\* file of the flag, or on the i-th of the other locations
TryFlag == "tryflag"

TryLocation == <<"try1", "try2", "try3", "try4", "try5", "try6">>

LocationOf(p) == CHOOSE i \in DOMAIN TryLocation : TryLocation[i] = p

FirstTry == IF Len(flagConfig) > 0 THEN TryFlag ELSE TryLocation[1]

\* GetConfigFromDefaultLocations at position p: the one call of tryToLoad
\* made there, which reads the file as it is at that moment, and the
\* position after it ("store", "failed", "create" or the next location)
TryAt(p) ==
    IF p = TryFlag
    THEN LET t == tryToLoad(flagConfig, "fromopenshift", "flag")
         IN  [t |-> t, read |-> <<flagConfig>>,
              next |-> IF t.err = None THEN "store" ELSE "failed"]
    ELSE LET i == LocationOf(p)
             loc == Locations(environ)[i]
             t == tryToLoad(loc.path, loc.engine, loc.location)
         IN  [t |-> t, read |-> IF Len(loc.path) > 0 THEN <<loc.path>> ELSE <<>>,
              next |-> IF t.err = None THEN "store"
                       ELSE IF i = Len(TryLocation) THEN "create"
                       ELSE TryLocation[i + 1]]

\* OscClientSetup.MergeConfig up to the first location
GetConfigStoreBegin ==
    /\ ucPc = "start"
    /\ \E ok \in ClientConfigOutcomes :
        IF login = None
        THEN ucErr' = InsufficientData /\ ucPc' = "failed"
        ELSE IF ~ok
        THEN ucErr' = ClientConfigError /\ ucPc' = "failed"
        ELSE ucPc' = FirstTry /\ UNCHANGED ucErr
    /\ UNCHANGED <<ruleVars, fs, loadVars, pathVars, codecVars, osVars, setup, other, wd, chVars,
                   perm, configStore, login, built, writes, tried, project>>

\* GetConfigFromDefaultLocations, one location: a call of tryToLoad
GetConfigStoreTry ==
    /\ ucPc \in {TryFlag} \cup Range(TryLocation)
    /\ LET r == TryAt(ucPc)
       IN  /\ tried' = tried \o r.read
           /\ ucPc' = r.next
           /\ configStore' = IF r.next = "store" THEN r.t.store ELSE configStore
           /\ ucErr' = IF r.next = "failed" THEN r.t.err ELSE ucErr
    /\ UNCHANGED <<ruleVars, fs, loadVars, pathVars, codecVars, osVars, setup, other, wd, chVars,
                   perm, login, built, writes, project>>

\* the second invocation, OscClientSetup.MergeConfig up to the first
\* location
ConcurrentGetConfigStoreBegin ==
    /\ other.pc = "off"
    /\ \E ok \in ClientConfigOutcomes :
        other' = [other EXCEPT !.pc = IF ok THEN FirstTry ELSE "failed"]
    /\ UNCHANGED <<ruleVars, fs, loadVars, pathVars, codecVars, osVars, setup, wd, chVars, stVars>>

\* the second invocation, GetConfigFromDefaultLocations, one location: it
\* reads the file as it is when the step runs
ConcurrentGetConfigStoreTry ==
    /\ other.pc \in {TryFlag} \cup Range(TryLocation)
    /\ LET r == TryAt(other.pc)
       IN  other' = [pc |-> r.next,
                     store |-> IF r.next = "store" THEN r.t.store ELSE other.store]
    /\ UNCHANGED <<ruleVars, fs, loadVars, pathVars, codecVars, osVars, setup, wd, chVars, stVars>>

\* the second invocation, CreateNewEmptyConfig up to the open of the new
\* file; a failure before the open changes no file
ConcurrentCreateOpen ==
    /\ other.pc = "create"
    /\ \E outcome \in {"ok", "fails"} :
        IF outcome = "fails"
        THEN other' = [other EXCEPT !.pc = "failed"] /\ UNCHANGED <<fs, perm>>
        ELSE LET o == OpenFile(fs, perm, OpenShiftHomeFile)
             IN  /\ fs' = o.fs
                 /\ perm' = o.perm
                 /\ other' = [other EXCEPT !.pc = "cwrite"]
    /\ UNCHANGED <<ruleVars, loadVars, pathVars, codecVars, osVars, setup, wd, chVars, login, configStore,
                   built, writes, ucErr, ucPc, tried, project>>

\* the second invocation, CreateNewEmptyConfig: the write of the empty
\* document, which can be short
ConcurrentCreateWrite ==
    /\ other.pc = "cwrite"
    /\ \/ \E file \in WriteFileOutcomes(fs[OpenShiftHomeFile], Write(NewConfig)) :
             /\ fs' = (OpenShiftHomeFile :> file) @@ fs
             /\ writes' = Append(writes, [config |-> NewConfig,
                                          filename |-> OpenShiftHomeFile,
                                          err |-> None])
             /\ other' = [other EXCEPT !.pc = "cread"]
       \/ /\ fs' = (OpenShiftHomeFile :> Partial) @@ fs
          /\ writes' = Append(writes, [config |-> NewConfig,
                                       filename |-> OpenShiftHomeFile,
                                       err |-> StoreError("write")])
          /\ other' = [other EXCEPT !.pc = "failed"]
    /\ UNCHANGED <<ruleVars, loadVars, pathVars, codecVars, osVars, setup, wd, chVars, perm, login,
                   configStore, built, ucErr, ucPc, tried, project>>

\* the second invocation, CreateNewEmptyConfig: the file is read back
ConcurrentCreateLoad ==
    /\ other.pc = "cread"
    /\ LET t == tryToLoad(OpenShiftHomeFile, "fromopenshift", "homedir")
       IN  other' = IF t.err = None THEN [pc |-> "store", store |-> t.store]
                    ELSE [other EXCEPT !.pc = "failed"]
    /\ UNCHANGED <<ruleVars, fs, loadVars, pathVars, codecVars, osVars, setup, wd, chVars, stVars>>

\* the second invocation, UpdateConfigFile up to the open of the store file;
\* a failure before the open changes no file
ConcurrentOpen ==
    /\ other.pc = "store"
    /\ \E outcome \in {"ok", "fails"} :
        IF outcome = "fails"
        THEN other' = [other EXCEPT !.pc = "failed"] /\ UNCHANGED <<fs, perm>>
        ELSE LET o == OpenFile(fs, perm, other.store.Path)
             IN  /\ fs' = o.fs
                 /\ perm' = o.perm
                 /\ other' = [other EXCEPT !.pc = "open"]
    /\ UNCHANGED <<ruleVars, loadVars, pathVars, codecVars, osVars, setup, wd, chVars, login, configStore,
                   built, writes, ucErr, ucPc, tried, project>>

\* the second invocation writes its document to the open store file; the
\* write can be short
ConcurrentWrite ==
    /\ other.pc = "open"
    /\ \/ \E file \in WriteFileOutcomes(fs[other.store.Path], Write(OtherConfigToWrite)) :
             /\ fs' = (other.store.Path :> file) @@ fs
             /\ writes' = Append(writes, [config |-> OtherConfigToWrite,
                                          filename |-> other.store.Path,
                                          err |-> None])
             /\ other' = [other EXCEPT !.pc = "done"]
       \/ /\ fs' = (other.store.Path :> Partial) @@ fs
          /\ writes' = Append(writes, [config |-> OtherConfigToWrite,
                                       filename |-> other.store.Path,
                                       err |-> StoreError("write")])
          /\ other' = [other EXCEPT !.pc = "failed"]
    /\ UNCHANGED <<ruleVars, loadVars, pathVars, codecVars, osVars, setup, wd, chVars, perm, login,
                   configStore, built, ucErr, ucPc, tried, project>>

InitStore ==
    /\ rules = <<>>
    /\ initial = <<>>
    /\ prepended = <<>>
    /\ appended = <<>>
    /\ fs \in [StoreFiles -> StoreFileStates]
    /\ fs[OpenShiftConfigFileName] \in {Absent, Holds(StoreFoo)}
    /\ fs[CurDirFile] \in {Absent, Holds(StoreBob)}
    /\ pc = "off"
    /\ kubeConfigFiles = <<>>
    /\ idx = 0
    /\ mapConfig = NewConfig
    /\ nonMapConfig = NewConfig
    /\ config = NewConfig
    /\ errlist = <<>>
    /\ resolved = <<>>
    /\ changed = {}
    /\ rpDir = <<>>
    /\ rpPath = <<>>
    /\ rpOut = <<>>
    /\ rpPc = "off"
    /\ CodecIdle
    /\ environ \in [KUBECONFIG : {<<>>, FlagFile}, OPENSHIFTCONFIG : {<<>>, FlagFile}]
    /\ flagConfig \in {<<>>, FlagFile}
    /\ ChallengeIdle
    /\ perm = [f \in StoreFiles |-> IF fs[f] = Absent THEN "none" ELSE "0644"]
    /\ configStore = <<>>
    /\ login \in Logins \cup {None}
    /\ built = <<>>
    /\ writes = <<>>
    /\ ucErr = <<>>
    /\ ucPc = "start"
    /\ tried = <<>>
    /\ project = ""
    /\ setup = <<>>
    /\ other = OtherIdle
    /\ wd = WorkDir

NextStore ==
    \/ GetConfigStore
    \/ CreateNewEmptyConfig
    \/ UpdateConfigFile

SpecStore == InitStore /\ [][NextStore]_vars

\* the files and inputs of the two invocations
InitRace ==
    /\ rules = <<>>
    /\ initial = <<>>
    /\ prepended = <<>>
    /\ appended = <<>>
    /\ fs \in [StoreFiles -> {Absent, Unreadable, Holds(StoreFoo), Holds(StoreBob)}]
    /\ fs[FlagFile] \in {Absent, Holds(StoreBob)}
    /\ fs[OpenShiftConfigFileName] \in {Absent, Holds(StoreFoo)}
    /\ fs[OpenShiftHomeFile] \in {Absent, Unreadable, Holds(StoreFoo)}
    /\ fs[CurDirFile] \in {Absent, Holds(StoreBob)}
    /\ fs[HomeFile] \in {Absent, Holds(StoreFoo)}
    /\ pc = "off"
    /\ kubeConfigFiles = <<>>
    /\ idx = 0
    /\ mapConfig = NewConfig
    /\ nonMapConfig = NewConfig
    /\ config = NewConfig
    /\ errlist = <<>>
    /\ resolved = <<>>
    /\ changed = {}
    /\ rpDir = <<>>
    /\ rpPath = <<>>
    /\ rpOut = <<>>
    /\ rpPc = "off"
    /\ CodecIdle
    /\ environ \in [KUBECONFIG : {<<>>, FlagFile}, OPENSHIFTCONFIG : {<<>>, FlagFile}]
    /\ flagConfig \in {<<>>, FlagFile}
    /\ ChallengeIdle
    /\ perm = [f \in StoreFiles |-> IF fs[f] = Absent THEN "none" ELSE "0644"]
    /\ configStore = <<>>
    /\ login \in Logins \cup {None}
    /\ built = <<>>
    /\ writes = <<>>
    /\ ucErr = <<>>
    /\ ucPc = "start"
    /\ tried = <<>>
    /\ project = ""
    /\ setup = <<>>
    /\ other = OtherIdle
    /\ wd = WorkDir

\* two invocations of the command line on the same files: each reads the
\* store locations one after the other, opens a file, writes it and reads
\* it as steps of its own, in any order
NextRace ==
    \/ GetConfigStoreBegin
    \/ GetConfigStoreTry
    \/ CreateNewEmptyConfigOpen
    \/ CreateNewEmptyConfigWrite
    \/ CreateNewEmptyConfigLoad
    \/ UpdateConfigFileOpen
    \/ UpdateConfigFileWrite
    \/ ConcurrentGetConfigStoreBegin
    \/ ConcurrentGetConfigStoreTry
    \/ ConcurrentCreateOpen
    \/ ConcurrentCreateWrite
    \/ ConcurrentCreateLoad
    \/ ConcurrentOpen
    \/ ConcurrentWrite

SpecRace == InitRace /\ [][NextRace]_vars

(***************************************************************************)
(* Specification of Write and Load alone: documents drawn from bounded sets *)
(***************************************************************************)
ClusterMaps ==
    { NilMap, EmptyMap,
      "a" :> Cluster("https://h1", FALSE, <<>>),
      ("a" :> Cluster("https://h2", TRUE, <<"/", "abs", "ca.crt">>))
         @@ ("b" :> Cluster("", FALSE, <<"..", "b.crt">>)) }

AuthInfoMaps ==
    { NilMap, EmptyMap,
      "u" :> AuthInfo("t1", <<>>, <<"keys", "k.pem">>, <<>>),
      ("u" :> AuthInfo("", <<"u.crt">>, <<>>, <<"auth">>))
         @@ ("v" :> AuthInfo("", <<>>, <<>>, <<>>)) }

ContextMaps ==
    { NilMap, EmptyMap,
      "x" :> Context("a", "u", "ns1"),
      ("x" :> Context("b", "u", "")) @@ ("y" :> Context("", "", "ns2")) }

CodecDocs ==
    [Clusters : ClusterMaps, AuthInfos : AuthInfoMaps, Contexts : ContextMaps,
     CurrentContext : {"", "x", "gone"}]

InitCodec ==
    /\ rules = <<>>
    /\ initial = <<>>
    /\ prepended = <<>>
    /\ appended = <<>>
    /\ fs = [f \in Files |-> Absent]
    /\ pc = "off"
    /\ kubeConfigFiles = <<>>
    /\ idx = 0
    /\ mapConfig = NewConfig
    /\ nonMapConfig = NewConfig
    /\ config = NewConfig
    /\ errlist = <<>>
    /\ resolved = <<>>
    /\ changed = {}
    /\ rpDir = <<>>
    /\ rpPath = <<>>
    /\ rpOut = <<>>
    /\ rpPc = "off"
    /\ OsIdle
    /\ ChallengeIdle
    /\ StoreIdle
    /\ setup = <<>>
    /\ other = OtherIdle
    /\ wd = WorkDir
    /\ cdDoc \in CodecDocs
    /\ cdData = <<>>
    /\ cdOut = <<>>
    /\ cdPc = "in"

CodecWrite ==
    /\ cdPc = "in"
    /\ cdData' = Write(cdDoc)
    /\ cdPc' = "written"
    /\ UNCHANGED <<ruleVars, fs, loadVars, pathVars, cdDoc, cdOut, osVars, chVars, stVars,
                   setup, other, wd>>

CodecLoad ==
    /\ cdPc = "written"
    /\ cdOut' = Load(cdData)
    /\ cdPc' = "loaded"
    /\ UNCHANGED <<ruleVars, fs, loadVars, pathVars, cdDoc, cdData, osVars, chVars, stVars,
                   setup, other, wd>>

NextCodec == CodecWrite \/ CodecLoad

SpecCodec == InitCodec /\ [][NextCodec]_vars

(***************************************************************************)
(* Properties of challengingClient.Do                                      *)
(***************************************************************************)
\* the value reads Basic, optional whitespace, realm=, and a non-empty
\* realm of word characters between quotation marks
ValueIsBasicChallenge(v) ==
    \E b \in 1..Len(v), j \in 1..Len(v), k \in 1..Len(v) :
        /\ b < j /\ j + 2 < k
        /\ v[b] = "Basic"
        /\ \A m \in (b + 1)..(j - 1) : v[m] = " "
        /\ v[j] = "realm=" /\ v[j + 1] = "\""
        /\ \A m \in (j + 2)..(k - 1) : v[m] \in WordTokens
        /\ v[k] = "\""

\* some value of a header named WWW-Authenticate, in any letter case, is a
\* Basic challenge
HasBasicChallenge(resp) ==
    \E h \in DOMAIN resp.Header :
        /\ h \in {"WWW-Authenticate", "www-authenticate", "Www-Authenticate"}
        /\ \E i \in 1..Len(resp.Header[h]) : ValueIsBasicChallenge(resp.Header[h][i])

\* the step is an activation of Do
DoStep == chPc = "do" /\ Len(answers') = Len(answers) + 1

LastAnswer == answers[Len(answers)]

BothSupplied == client.defaultUsername = "alice" /\ client.defaultPassword = "secret"

ChallengeOrigin == [StatusCode |-> 401, Header |-> ("WWW-Authenticate" :> <<BasicOrigin>>)]

\* C12: when the delegate returns a response that is not a 401, or a 401
\* with no WWW-Authenticate value (name in any letter case) that is a Basic
\* challenge, Do returns that response unchanged, sends nothing more, shows
\* no prompt and leaves the transport as it was.
C12_PassThrough ==
    [][ (/\ DoStep
         /\ answers'[Len(answers')].err = None
         /\ \/ answers'[Len(answers')].resp.StatusCode # 401
            \/ ~HasBasicChallenge(answers'[Len(answers')].resp))
        => /\ result' = [resp |-> answers'[Len(answers')].resp, err |-> None]
           /\ chPc' = "ret"
           /\ Len(sent') = Len(sent) + 1
           /\ prompts' = prompts
           /\ client' = client ]_vars

\* C12 witness: a 401 whose only WWW-Authenticate value spells basic in
\* lower case was returned as it came, after a single request.
C12_Witness ==
    /\ chPc = "ret"
    /\ Len(sent) = 1
    /\ answers[1].err = None
    /\ answers[1].resp = [StatusCode |-> 401, Header |-> ("WWW-Authenticate" :> <<LowerBasic>>)]
    /\ result = [resp |-> answers[1].resp, err |-> None]
    /\ client.delegate.Transport = DefaultRoundTripper
    /\ prompts = <<>>

\* C13: when the first response is a 401 with WWW-Authenticate: Basic
\* realm="origin" and username and password were both supplied, Do sends
\* exactly one retried request, through a basic-auth transport holding those
\* credentials, and shows no prompt.
C13_ScenarioB ==
    (chPc = "ret" /\ answers[1].resp = ChallengeOrigin /\ BothSupplied)
        => /\ Len(sent) = 2
           /\ sent[2] = NewBasicAuthRoundTripper("alice", "secret", DefaultRoundTripper)
           /\ prompts = <<>>

\* C14: one call of Do sends at most two requests.
C14_SingleRetry == Len(sent) <= 2

\* C15: a prompt for the username (the password) is shown only if that
\* value was not supplied and the reader is an interactive terminal; with a
\* reader that is not a terminal the retry goes out with the supplied,
\* possibly empty, values and no prompt.
C15_Prompting ==
    [][ DoStep =>
        /\ \E new \in {<<>>, <<"Username: ">>, <<"Password: ">>,
                       <<"Username: ", "Password: ">>} :
              /\ prompts' = prompts \o new
              /\ (\E i \in 1..Len(new) : new[i] = "Username: ")
                    => client.defaultUsername = "" /\ client.reader = "tty"
              /\ (\E i \in 1..Len(new) : new[i] = "Password: ")
                    => client.defaultPassword = "" /\ client.reader = "tty"
        /\ (chPc' = "do" /\ client.defaultUsername # "")
              => client'.delegate.Transport.username = client.defaultUsername
        /\ (chPc' = "do" /\ client.defaultPassword # "")
              => client'.delegate.Transport.password = client.defaultPassword
        /\ (chPc' = "do" /\ client.reader # "tty")
              => /\ prompts' = prompts
                 /\ client'.delegate.Transport =
                       NewBasicAuthRoundTripper(client.defaultUsername,
                                                client.defaultPassword,
                                                DefaultRoundTripper) ]_vars

\* C15 witness: on a terminal with only the username supplied, the password
\* alone was asked for and the retry carried the typed password.
C15_Witness ==
    /\ client.reader = "tty"
    /\ client.defaultUsername = "alice" /\ client.defaultPassword = ""
    /\ Len(sent) = 2
    /\ prompts = <<"Password: ">>
    /\ sent[2] = NewBasicAuthRoundTripper("alice", "pw", DefaultRoundTripper)

\* C15 witness, second case: a reader that is a file but no terminal, nothing
\* supplied: the retry went out with empty credentials and without a prompt.
C15_WitnessNoTerminal ==
    /\ client.reader = "file"
    /\ client.defaultUsername = "" /\ client.defaultPassword = ""
    /\ Len(sent) = 2
    /\ prompts = <<>>
    /\ sent[2] = NewBasicAuthRoundTripper("", "", DefaultRoundTripper)

\* C16: when the delegate returns an error, Do returns no response and the
\* error after decoration: the certificate-authority guidance for a text
\* containing "certificate signed by unknown authority", otherwise the
\* not-configured guidance for a text containing "no server found for",
\* otherwise the error itself; a nil error stays nil.
C16_ErrorDecoration ==
    /\ WrapClientErrors(None) = None
    /\ (chPc = "ret" /\ LastAnswer.err # None) =>
          /\ result.resp = None
          /\ result.err =
                IF \E i \in 1..Len(LastAnswer.err.text) :
                      LastAnswer.err.text[i] = "certificate signed by unknown authority"
                THEN [reason |-> 2, msg |-> "certificateAuthorityUnknownMsg"]
                ELSE IF \E i \in 1..Len(LastAnswer.err.text) :
                           LastAnswer.err.text[i] = "no server found for"
                     THEN [reason |-> 1, msg |-> "notConfiguredMsg"]
                     ELSE LastAnswer.err

\* C16 witness: the delegate failed with "no server found for h" and Do
\* returned the not-configured guidance and no response.
C16_Witness ==
    /\ chPc = "ret"
    /\ LastAnswer.err = NetError(<<"no server found for", " h">>)
    /\ result = [resp |-> None, err |-> NotConfigured]


(***************************************************************************)
(* Properties of the persistence flow                                      *)
(***************************************************************************)
\* the names UpdateConfigFile is to give the new entries
ExpectedCredentialsName == IF login.username = "" THEN "osc-login" ELSE login.username

ExpectedClusterName ==
    IF login.clientConfig.Host = "https://new:8443" THEN "new:8443" ELSE "old:443"

ExpectedContextName ==
    IF login.clientConfig.Host = "https://new:8443"
    THEN (IF login.username = "" THEN "new:8443-osc-login" ELSE "new:8443-bob")
    ELSE (IF login.username = "" THEN "old:443-osc-login" ELSE "old:443-bob")

NewNames ==
    [Clusters |-> {ExpectedClusterName},
     AuthInfos |-> {ExpectedCredentialsName},
     Contexts |-> {ExpectedContextName}]

\* UpdateConfigFile returned without error
Updated == ucPc = "done" /\ ucErr = None

\* every entry of the store read before whose name is not a new name is in
\* the written file as it was
OthersUnchanged ==
    \A field \in MapFields :
        \A k \in (DOMAIN configStore.Config[field]) \ NewNames[field] :
            /\ k \in DOMAIN fs[configStore.Path].doc[field]
            /\ fs[configStore.Path].doc[field][k] = configStore.Config[field][k]

\* C17: the document UpdateConfigFile builds has exactly one AuthInfo, named
\* by the username or "osc-login" and holding the token; exactly one Cluster
\* named host:port of the server; exactly one Context named
\* <cluster name>-<credentials name> referencing both with the current
\* namespace; and that context's name as CurrentContext.
C17_MinimalDocument ==
    built # <<>> =>
        /\ DOMAIN built.AuthInfos = {ExpectedCredentialsName}
        /\ built.AuthInfos[ExpectedCredentialsName].Token = login.token
        /\ DOMAIN built.Clusters = {ExpectedClusterName}
        /\ built.Clusters[ExpectedClusterName].Server = login.clientConfig.Host
        /\ DOMAIN built.Contexts = {ExpectedContextName}
        /\ built.Contexts[ExpectedContextName] =
              [Cluster |-> ExpectedClusterName, AuthInfo |-> ExpectedCredentialsName,
               Namespace |-> login.namespace]
        /\ built.CurrentContext = ExpectedContextName

\* C17 witness: a login with an empty username against new:8443 built the
\* entries osc-login, new:8443 and new:8443-osc-login.
C17_Witness ==
    /\ built # <<>>
    /\ login.username = "" /\ login.clientConfig.Host = "https://new:8443"
    /\ login.namespace = "ns1"
    /\ "osc-login" \in DOMAIN built.AuthInfos
    /\ built.CurrentContext = "new:8443-osc-login"

\* C18: after a successful UpdateConfigFile every cluster, auth info and
\* context of the store read before whose name is not one of the new names
\* is in the written file unchanged, the new context is present, and the
\* file's CurrentContext is the new context.
C18_PreservesUnrelated ==
    Updated =>
        /\ fs[configStore.Path].kind = "doc"
        /\ OthersUnchanged
        /\ ExpectedContextName \in DOMAIN fs[configStore.Path].doc.Contexts
        /\ fs[configStore.Path].doc.CurrentContext = ExpectedContextName

\* C18 witness: the store held context foo on old:443; after the login to
\* new:8443 as bob the file holds foo, old:443 and alice as before, the
\* context new:8443-bob, and CurrentContext new:8443-bob.
C18_Witness ==
    /\ Updated
    /\ configStore.Config = StoreFoo
    /\ login.username = "bob" /\ login.clientConfig.Host = "https://new:8443"
    /\ fs[configStore.Path].doc.Contexts["foo"] = StoreFoo.Contexts["foo"]
    /\ fs[configStore.Path].doc.Clusters["old:443"] = StoreFoo.Clusters["old:443"]
    /\ fs[configStore.Path].doc.AuthInfos["alice"] = StoreFoo.AuthInfos["alice"]
    /\ "new:8443-bob" \in DOMAIN fs[configStore.Path].doc.Contexts
    /\ fs[configStore.Path].doc.CurrentContext = "new:8443-bob"

\* C19: when the store already has an AuthInfo for the user with another
\* token, the written file has the new token under that name, and the
\* entries under other names are unchanged.
C19_TokenUpdatedInPlace ==
    (/\ Updated
     /\ ExpectedCredentialsName \in DOMAIN configStore.Config.AuthInfos
     /\ configStore.Config.AuthInfos[ExpectedCredentialsName].Token # login.token)
        => /\ fs[configStore.Path].kind = "doc"
           /\ fs[configStore.Path].doc.AuthInfos[ExpectedCredentialsName].Token = login.token
           /\ OthersUnchanged

\* C19 witness: the store held bob with token t1; after the login of bob
\* with token t2 the file holds t2 for bob and alice as before.
C19_Witness ==
    /\ Updated
    /\ configStore.Config = StoreBob
    /\ login.username = "bob" /\ login.token = "t2"
    /\ fs[configStore.Path].doc.AuthInfos["bob"].Token = "t2"
    /\ fs[configStore.Path].doc.AuthInfos["alice"] = StoreBob.AuthInfos["alice"]

\* C20: a call of WriteToFile leaves the file with the complete document it
\* was given or, when it fails, with the content it had; a file the call
\* creates has the permissions 0600; nothing else changes a file.
C20_NoPartialPersistence ==
    [][ IF writes' # writes
        THEN LET w == writes'[Len(writes')]
             IN  /\ \A f \in (DOMAIN fs) \ {w.filename} : fs'[f] = fs[f]
                 /\ w.err = None => fs'[w.filename] = Holds(w.config)
                 /\ w.err # None => fs'[w.filename] = fs[w.filename]
                 /\ (fs[w.filename] = Absent /\ fs'[w.filename] # Absent)
                       => perm'[w.filename] = "0600"
        ELSE fs' = fs ]_vars

(***************************************************************************)
(* The project command                                                     *)
(***************************************************************************)
ProjectNames == {"ns1", "ns2"}

\* the entry of a Go map of structs: the zero value when the key is missing
ClusterOf(cfg, name) ==
    IF name \in DOMAIN cfg.Clusters THEN cfg.Clusters[name] ELSE Cluster("", FALSE, <<>>)

AuthInfoOf(cfg, name) ==
    IF name \in DOMAIN cfg.AuthInfos THEN cfg.AuthInfos[name]
    ELSE AuthInfo("", <<>>, <<>>, <<>>)

\* RawConfig() and ClientConfig() return without error: the candidates
\* loaded and the current context names a context, cluster and user
Usable(rawCfg) ==
    /\ errlist = <<>>
    /\ rawCfg.CurrentContext \in DOMAIN rawCfg.Contexts
    /\ rawCfg.Contexts[rawCfg.CurrentContext].Cluster \in DOMAIN rawCfg.Clusters
    /\ rawCfg.Contexts[rawCfg.CurrentContext].AuthInfo \in DOMAIN rawCfg.AuthInfos

\* the contexts of the store for the project, the server and the token
MatchingContexts(store, name, clientCfg) ==
    {k \in DOMAIN store.Contexts :
        /\ store.Contexts[k].Namespace = name
        /\ ClusterOf(store, store.Contexts[k].Cluster).Server = clientCfg.Host
        /\ AuthInfoOf(store, store.Contexts[k].AuthInfo).Token = clientCfg.BearerToken}

\* variant of SwitchProject: the context written is made the current one
SwitchProjectSetsCurrent(store, rawCfg, name, k, uuid) ==
    LET currentCtx == rawCfg.CurrentContext
    IN  IF k \in DOMAIN store.Contexts
        THEN [store EXCEPT !.CurrentContext = k]
        ELSE IF currentCtx \in DOMAIN store.Contexts
             THEN [store EXCEPT !.Contexts[currentCtx].Namespace = name,
                                !.CurrentContext = currentCtx]
             ELSE [store EXCEPT
                     !.Contexts = (uuid :> Context(rawCfg.Contexts[currentCtx].Cluster,
                                                   rawCfg.Contexts[currentCtx].AuthInfo,
                                                   name)) @@ @,
                     !.CurrentContext = uuid]

\* the document the project command writes: k is the matching context the
\* loop stopped at, or no context's name when none matches
SwitchProject(store, rawCfg, name, k, uuid) ==
    LET currentCtx == rawCfg.CurrentContext
    IN  IF k \in DOMAIN store.Contexts
        THEN [store EXCEPT !.CurrentContext = k]
        ELSE IF currentCtx \in DOMAIN store.Contexts
             THEN [store EXCEPT !.Contexts[currentCtx].Namespace = name]
             ELSE [store EXCEPT
                     !.Contexts = (uuid :> Context(rawCfg.Contexts[currentCtx].Cluster,
                                                   rawCfg.Contexts[currentCtx].AuthInfo,
                                                   name)) @@ @]

\* the project command with one argument
Project ==
    /\ pc = "done"
    /\ ucPc = "off"
    /\ \E projectName \in ProjectNames, found \in BOOLEAN, outcome \in WriteOutcomes :
        LET rawCfg == config
            r == GetConfigFromDefaultLocations(flagConfig, environ)
        IN  IF ~(Usable(rawCfg) /\ found)
            THEN /\ ucErr' = StoreError("fatal")
                 /\ ucPc' = "failed"
                 /\ UNCHANGED <<fs, perm, writes, configStore, tried, project>>
            ELSE IF r.err # None
            THEN /\ ucErr' = r.err
                 /\ ucPc' = "failed"
                 /\ tried' = r.tried
                 /\ UNCHANGED <<fs, perm, writes, configStore, project>>
            ELSE LET ctx == rawCfg.Contexts[rawCfg.CurrentContext]
                     clientCfg == [Host |-> rawCfg.Clusters[ctx.Cluster].Server,
                                   BearerToken |-> rawCfg.AuthInfos[ctx.AuthInfo].Token]
                     matching == MatchingContexts(r.store.Config, projectName, clientCfg)
                 IN  \E k \in (IF matching = {} THEN {""} ELSE matching) :
                        LET cfg == SwitchProject(r.store.Config, rawCfg, projectName, k,
                                                 "uuid-1")
                            w == WriteToFile(fs, perm, cfg, r.store.Path, outcome)
                        IN  /\ fs' = w.fs
                            /\ perm' = w.perm
                            /\ writes' = Append(writes, WriteRecord(cfg, r.store.Path, w))
                            /\ configStore' = [r.store EXCEPT !.Config = cfg]
                            /\ tried' = r.tried
                            /\ project' = projectName
                            /\ ucErr' = w.err
                            /\ ucPc' = IF w.err = None THEN "done" ELSE "failed"
    /\ UNCHANGED <<ruleVars, loadVars, pathVars, codecVars, osVars, setup, other, wd, chVars, login, built>>

InitProject ==
    /\ rules = <<>>
    /\ initial = <<>>
    /\ prepended = <<>>
    /\ appended = <<>>
    /\ fs \in [Files -> {Absent} \cup {Holds(d) : d \in Docs}]
    /\ pc = "new"
    /\ kubeConfigFiles = <<>>
    /\ idx = 0
    /\ mapConfig = NewConfig
    /\ nonMapConfig = NewConfig
    /\ config = NewConfig
    /\ errlist = <<>>
    /\ resolved = <<>>
    /\ changed = {}
    /\ rpDir = <<>>
    /\ rpPath = <<>>
    /\ rpOut = <<>>
    /\ rpPc = "off"
    /\ CodecIdle
    /\ environ \in [KUBECONFIG : EnvPaths, OPENSHIFTCONFIG : EnvPaths]
    /\ flagConfig \in EnvPaths
    /\ ChallengeIdle
    /\ perm = [f \in Files |-> IF fs[f] = Absent THEN "none" ELSE "0644"]
    /\ configStore = <<>>
    /\ login = <<>>
    /\ built = <<>>
    /\ writes = <<>>
    /\ ucErr = <<>>
    /\ ucPc = "off"
    /\ tried = <<>>
    /\ project = ""
    /\ setup = <<>>
    /\ other = OtherIdle
    /\ wd = WorkDir

NextProject == NextOS \/ Project

SpecProject == InitProject /\ [][NextProject]_vars

(***************************************************************************)
(* OscClientSetup.DetermineAuthInfo                                        *)
(***************************************************************************)
\* the users of the server by bearer token; a user's Name is the identity
\* provider and the user name, joined by ":" (here a sequence of the parts)
Users ==
    ("t0" :> [Name |-> <<"anypassword", "alice">>, FullName |-> "Alice A"])
    @@ ("t1" :> [Name |-> <<"anypassword", "bob">>, FullName |-> "Bob B"])
    @@ ("t2" :> [Name |-> <<"anypassword", "bob">>, FullName |-> "Bob B"])
    @@ ("t3" :> [Name |-> <<"anypassword", "alice">>, FullName |-> "Alice A"])

\* strings.Split(user.Name, ":")[1]
usernameFromUser(user) == user.Name[2]

usernameProvided(c) == c.username # ""

\* the user of the bearer token of clientCfg; up: the server answers, and
\* an answer to an unknown or empty token is an error
whoami(clientCfg, up) ==
    IF up /\ clientCfg.BearerToken \in DOMAIN Users
    THEN [me |-> Users[clientCfg.BearerToken], err |-> None]
    ELSE [me |-> None, err |-> NetError(<<"users/~">>)]

\* what tokencmd.RequestToken returns, and the client config it leaves:
\* its code is not at hand, so the config keeps the empty bearer token or
\* carries the token granted
RequestTokenOutcomes(c, clientCfg) ==
    {[accessToken |-> p[1], err |-> None,
      cfg |-> [clientCfg EXCEPT !.BearerToken = IF p[2] THEN p[1] ELSE ""]] :
        p \in {u \in {"t2", "t3"} :
                 ~usernameProvided(c) \/ usernameFromUser(Users[u]) = c.username}
              \X BOOLEAN}
    \cup {[accessToken |-> "", err |-> e, cfg |-> clientCfg] :
            e \in {CertificateAuthorityUnknown,
                   NetError(<<"dial tcp: ", "connection refused">>)}}

\* the contexts of the store that hold a token for c.username on c.server
ReusableContexts(c, store) ==
    IF store # None /\ usernameProvided(c)
    THEN {k \in DOMAIN store.Config.Contexts :
            LET ctx == store.Config.Contexts[k]
            IN  /\ ctx.AuthInfo = c.username
                /\ ClusterOf(store.Config, ctx.Cluster).Server = c.server
                /\ AuthInfoOf(store.Config, ctx.AuthInfo).Token # ""}
    ELSE {}

Call(fn, token, ok) == [fn |-> fn, token |-> token, ok |-> ok]

RECURSIVE Repeat(_, _)
Repeat(x, n) == IF n = 0 THEN <<>> ELSE <<x>> \o Repeat(x, n - 1)

\* variant of SignedIn: a user name given always asks for a new login
SignedInNoUserOnly(c, first) == first.err = None /\ ~usernameProvided(c)

\* the condition of the first return: already signed in with the user given
SignedIn(c, first) ==
    /\ first.err = None
    /\ (~usernameProvided(c)
         \/ (usernameProvided(c) /\ c.username = usernameFromUser(first.me)))

\* the values DetermineAuthInfo returns (info = None: a nil pointer), the
\* calls it makes and whether it runs the command again (c.cmd.Execute())
\* instead of returning.
\* cc: what ClientConfig() returns; r: what GetConfigFromDefaultLocations
\* returns; up1, up3: the server answers the first and the last whoami;
\* fails: attempts of the loop over the contexts the server does not answer;
\* rt: what RequestToken returns; insecure: the answer to the prompt;
\* hasFlag: the command has the flag insecure-skip-tls-verify
DetermineAuthInfoOf(c, cc, r, up1, fails, up3, rt, insecure, hasFlag) ==
    LET clientCfg == cc.cfg
        first == whoami(clientCfg, up1)
        call1 == <<Call("whoami", clientCfg.BearerToken, first.err = None)>>
        M == ReusableContexts(c, r.store)
        token == AuthInfoOf(r.store.Config, c.username).Token
        reuse == whoami([clientCfg EXCEPT !.BearerToken = token], TRUE)
        accepted == /\ reuse.err = None
                    /\ usernameFromUser(reuse.me) = c.username
        hit == fails < Cardinality(M) /\ accepted
        loopCalls == IF M = {} THEN <<>>
                     ELSE Repeat(Call("whoami", token, FALSE),
                                 IF hit THEN fails ELSE Cardinality(M))
                          \o (IF hit THEN <<Call("whoami", token, TRUE)>> ELSE <<>>)
        call2 == call1 \o <<Call("GetConfigFromDefaultLocations", "", r.err = None)>>
        call3 == call2 \o loopCalls
                 \o <<Call("RequestToken", "", rt.err = None)>>
        last == whoami(rt.cfg, up3)
        call4 == call3 \o <<Call("whoami", rt.cfg.BearerToken, last.err = None)>>
        Ret(info, err, calls) == [info |-> info, err |-> err, calls |-> calls,
                                  execute |-> FALSE]
    IN  IF cc.err # None THEN Ret(None, cc.err, <<>>)
        ELSE IF SignedIn(c, first)
        THEN Ret([Username |-> usernameFromUser(first.me),
                  FullName |-> first.me.FullName,
                  Token |-> clientCfg.BearerToken,
                  NewAuth |-> FALSE], None, call1)
        ELSE IF r.err # None /\ r.err # StoreError("ConfigStoreNotFoundError")
        THEN Ret(None, r.err, call2)
        ELSE IF hit
        THEN Ret([Username |-> usernameFromUser(reuse.me),
                  FullName |-> reuse.me.FullName,
                  Token |-> token,
                  NewAuth |-> FALSE], None, call2 \o loopCalls)
        ELSE IF rt.err # None
        THEN IF rt.err = CertificateAuthorityUnknown /\ insecure /\ hasFlag
             THEN [info |-> None, err |-> None,
                   calls |-> call3 \o <<Call("PromptForBool", "", TRUE)>>,
                   execute |-> TRUE]
             ELSE Ret(None, rt.err,
                      IF rt.err = CertificateAuthorityUnknown
                      THEN call3 \o <<Call("PromptForBool", "", insecure)>>
                      ELSE call3)
        ELSE IF last.err = None
        THEN Ret([Username |-> usernameFromUser(last.me),
                  FullName |-> last.me.FullName,
                  Token |-> rt.accessToken,
                  NewAuth |-> TRUE], None, call4)
        ELSE Ret(None, None, call4)

\* a store whose context foo names a cluster the document does not have:
\* config.Clusters[ctx.Cluster] is then the zero Cluster, with Server ""
StoreNoCluster ==
    [Clusters |-> EmptyMap,
     AuthInfos |-> ("alice" :> AuthInfo("t0", <<>>, <<>>, <<>>)),
     Contexts |-> ("foo" :> Context("gone", "alice", "ns0")),
     CurrentContext |-> "foo"]

\* what the command line gives NewOscClientSetup, and what ClientConfig()
\* returns for it: options.server is bound to no flag of the login command,
\* so c.server is empty in every run
SetupInputs ==
    [username : {"", "alice", "bob"},
     server : {""},
     cc : {[cfg |-> [Host |-> h, BearerToken |-> t], err |-> None] :
              h \in {"https://new:8443"}, t \in {"", "t0", "t1", "t9"}}
          \cup {[cfg |-> None, err |-> NotConfigured]}]

\* the number of times the command is run again by c.cmd.Execute(), from
\* the server prompt or from the certificate branch
MaxReruns == 1

defaultClusterURL == "https://localhost:8443"

\* util.PromptForStringWithDefault: the line read, or def when it is empty
PromptForStringWithDefault(line, def) == IF line = "" THEN def ELSE line

\* what ClientConfig() returns to DetermineServerInfo: the files are loaded
\* again at every call of ClientConfig().  No server is missing once the
\* flag server is set, and the host is then the one of the flag.
ServerConfigs(c) ==
    {[cfg |-> [Host |-> IF c.flagServer # "" THEN c.flagServer ELSE "https://new:8443",
               BearerToken |-> ""],
      err |-> None],
     [cfg |-> None, err |-> ClientConfigError]}
    \cup (IF c.flagServer = "" THEN {[cfg |-> None, err |-> NotConfigured]} ELSE {})

\* the values DetermineServerInfo returns (info = None: a nil pointer), the
\* prompt it makes, and whether it sets the flag server to the server
\* prompted for and runs the command again instead of returning.
\* cc: what ClientConfig() returns; line: the line read at the prompt;
\* hasFlag: the command has the flag server
DetermineServerInfoOf(cc, line, hasFlag) ==
    LET promptedServer == PromptForStringWithDefault(line, defaultClusterURL)
        prompt == <<Call("PromptForStringWithDefault", "", TRUE)>>
    IN  IF cc.err = NotConfigured /\ hasFlag
        THEN [info |-> None, err |-> None, calls |-> prompt, execute |-> TRUE,
              server |-> promptedServer]
        ELSE IF cc.err # None
        THEN [info |-> None, err |-> cc.err,
              calls |-> IF cc.err = NotConfigured THEN prompt ELSE <<>>,
              execute |-> FALSE, server |-> ""]
        ELSE [info |-> [URL |-> cc.cfg.Host], err |-> None, calls |-> <<>>,
              execute |-> FALSE, server |-> ""]

\* DetermineServerInfo of the run of the login command in progress, and the
\* checkErr that follows it.  When the command is run again the flag server
\* is set: ClientConfig() then yields that host, with the token it had.
DetermineServerInfo ==
    /\ setup # <<>>
    /\ setup.pc = "start"
    /\ \E cc \in ServerConfigs(setup), line \in {"", "https://new:8443"},
          hasFlag \in BOOLEAN :
        LET d == DetermineServerInfoOf(cc, line, hasFlag)
        IN  /\ d.execute => setup.runs < MaxReruns
            /\ setup' = IF d.execute
                        THEN [setup EXCEPT
                                !.runs = @ + 1,
                                !.flagServer = d.server,
                                !.cc = [cfg |-> [Host |-> d.server,
                                                 BearerToken |->
                                                    IF @.err = None
                                                    THEN @.cfg.BearerToken ELSE ""],
                                        err |-> None],
                                !.before = @ \o d.calls
                                             \o <<Call("Execute", "", TRUE)>>]
                        ELSE IF d.err # None
                        THEN [setup EXCEPT !.pc = "fatal",
                                           !.err = d.err,
                                           !.before = @ \o d.calls]
                        ELSE [setup EXCEPT !.pc = "new", !.url = d.info.URL]
    /\ UNCHANGED <<other, wd, ruleVars, fs, loadVars, pathVars, codecVars, osVars, chVars, stVars>>

\* DetermineAuthInfo of the run of the login command in progress.  In the
\* certificate branch the flag insecure-skip-tls-verify is set and the
\* command is executed again: calls holds the calls of the run in progress,
\* before those of the runs that started it.
DetermineAuthInfo ==
    /\ setup # <<>>
    /\ setup.pc = "new"
    /\ \E up1 \in BOOLEAN, up3 \in BOOLEAN, insecure \in BOOLEAN, hasFlag \in BOOLEAN :
        LET r == IF setup.cc.err = None
                 THEN GetConfigFromDefaultLocations(flagConfig, environ)
                 ELSE [store |-> None, err |-> None, tried |-> <<>>]
            M == ReusableContexts(setup, r.store)
            rts == IF setup.cc.err = None
                   THEN RequestTokenOutcomes(setup, [setup.cc.cfg EXCEPT !.BearerToken = ""])
                   ELSE {[accessToken |-> "", err |-> NotConfigured, cfg |-> None]}
        IN  \E fails \in 0..Cardinality(M), rt \in rts :
              LET d == DetermineAuthInfoOf(setup, setup.cc, r, up1, fails, up3, rt,
                                           insecure, hasFlag)
              IN  /\ d.execute => setup.runs < MaxReruns
                  /\ setup' = IF d.execute
                              THEN [setup EXCEPT !.pc = "start",
                                                 !.runs = @ + 1,
                                                 !.insecure = TRUE,
                                                 !.before = @ \o d.calls
                                                     \o <<Call("Execute", "", TRUE)>>,
                                                 !.up1 = FALSE,
                                                 !.rt = <<>>,
                                                 !.url = "",
                                                 !.info = None,
                                                 !.err = None,
                                                 !.calls = <<>>]
                              ELSE [setup EXCEPT !.pc = "ret",
                                                 !.up1 = up1,
                                                 !.rt = rt,
                                                 !.info = d.info,
                                                 !.err = d.err,
                                                 !.calls = d.calls]
    /\ UNCHANGED <<other, wd, ruleVars, fs, loadVars, pathVars, codecVars, osVars, chVars, stVars>>

\* the login command after DetermineAuthInfo returned, in the first run and
\* in a run started by c.cmd.Execute(): checkErr ends the process on an
\* error, authInfo.NewAuth is read (a nil authInfo panics), and the projects
\* are looked up, with checkErr on the result
RunLogin ==
    /\ setup # <<>>
    /\ setup.pc = "ret"
    /\ \E projectInfo \in BOOLEAN :
        setup' = [setup EXCEPT !.pc =
                     IF setup.err # None THEN "fatal"
                     ELSE IF setup.info = None THEN "panic"
                     ELSE IF ~projectInfo THEN "fatal"
                     ELSE "project"]
    /\ UNCHANGED <<other, wd, ruleVars, fs, loadVars, pathVars, codecVars, osVars, chVars, stVars>>

\* clientSetup.SaveConfig() of the login command (login.go:331). The source
\* holds no definition of SaveConfig; it is modelled from the specification's
\* Config Persistence section: the identity acquired in this run is merged
\* into the configuration on disk and written back, which is what
\* OscClientSetup.MergeConfig does with the setup infos
SaveConfig ==
    /\ setup # <<>>
    /\ setup.pc = "project"
    /\ setup' = [setup EXCEPT !.pc = "save"]
    /\ login' = [username |-> setup.info.Username,
                 token |-> setup.info.Token,
                 clientConfig |-> [Host |-> setup.cc.cfg.Host,
                                   Insecure |-> setup.insecure,
                                   CAFile |-> <<>>],
                 namespace |-> ""]
    /\ ucPc' = "start"
    /\ UNCHANGED <<other, wd, ruleVars, fs, loadVars, pathVars, codecVars, osVars, chVars,
                   perm, configStore, built, writes, ucErr, tried, project>>

\* the end of a run of the login command: checkErr after the save returned
\* an error, or the return of the command (and os.Exit(0) in the run that
\* called c.cmd.Execute())
ExitLogin ==
    /\ setup # <<>>
    /\ setup.pc = "save"
    /\ ucPc \in {"done", "failed"}
    /\ setup' = [setup EXCEPT !.pc = IF ucPc = "done" THEN "exit" ELSE "fatal"]
    /\ UNCHANGED <<other, wd, ruleVars, fs, loadVars, pathVars, codecVars, osVars, chVars, stVars>>

InitSetup ==
    /\ rules = <<>>
    /\ initial = <<>>
    /\ prepended = <<>>
    /\ appended = <<>>
    /\ fs \in [StoreFiles -> {Absent, Unreadable, Holds(StoreFoo), Holds(StoreBob),
                              Holds(StoreNoCluster)}]
    /\ fs[FlagFile] \in {Absent, Holds(StoreBob)}
    /\ fs[OpenShiftConfigFileName] = Absent
    /\ fs[CurDirFile] = Absent
    /\ fs[HomeFile] \in {Absent, Holds(StoreFoo)}
    /\ pc = "off"
    /\ kubeConfigFiles = <<>>
    /\ idx = 0
    /\ mapConfig = NewConfig
    /\ nonMapConfig = NewConfig
    /\ config = NewConfig
    /\ errlist = <<>>
    /\ resolved = <<>>
    /\ changed = {}
    /\ rpDir = <<>>
    /\ rpPath = <<>>
    /\ rpOut = <<>>
    /\ rpPc = "off"
    /\ CodecIdle
    /\ environ = [KUBECONFIG |-> <<>>, OPENSHIFTCONFIG |-> <<>>]
    /\ flagConfig \in {<<>>, FlagFile}
    /\ ChallengeIdle
    /\ perm = [f \in StoreFiles |-> IF fs[f] = Absent THEN "none" ELSE "0644"]
    /\ configStore = <<>>
    /\ login = <<>>
    /\ built = <<>>
    /\ writes = <<>>
    /\ ucErr = <<>>
    /\ ucPc = "off"
    /\ tried = <<>>
    /\ project = ""
    /\ \E i \in SetupInputs :
          setup = [pc |-> "start", username |-> i.username, server |-> i.server,
                   cc |-> i.cc, up1 |-> FALSE, rt |-> <<>>,
                   info |-> None, err |-> None, calls |-> <<>>,
                   before |-> <<>>, runs |-> 0, insecure |-> FALSE,
                   flagServer |-> "", url |-> ""]
    /\ other = OtherIdle
    /\ wd = WorkDir

NextSetup ==
    \/ DetermineServerInfo
    \/ DetermineAuthInfo
    \/ RunLogin
    \/ SaveConfig
    \/ setup # <<>> /\ setup.pc = "save" /\ NextStore
    \/ ExitLogin

SpecSetup == InitSetup /\ [][NextSetup]_vars

\* the names the document of write record w adds to what the store held
AddedBy(w, field) == (DOMAIN w.config[field]) \ (DOMAIN configStore.Config[field])

\* C21: two invocations read the same store file, with the same content,
\* and write it back without locking; after both wrote successfully the
\* file holds exactly the document of the last writer, and an entry the
\* earlier writer added that the later writer did not have is not in the
\* file.
C21_LastWriterWins ==
    (/\ ucPc = "done" /\ other.pc = "done"
     /\ other.store.Path = configStore.Path
     /\ other.store.Config = configStore.Config) =>
        LET last == writes[Len(writes)]
        IN  /\ fs[last.filename] = Holds(last.config)
            /\ \A i \in 1..(Len(writes) - 1) : \A field \in MapFields :
                   \A k \in AddedBy(writes[i], field) \ AddedBy(last, field) :
                      (writes[i].err = None /\ writes[i].filename = last.filename)
                         => k \notin DOMAIN fs[last.filename].doc[field]

\* C21 witness: bob's login to new:8443 was written to the store that held
\* foo, then the invocation of carol wrote; the file has carol's context and
\* neither bob's credentials nor bob's context.
C21_Witness ==
    /\ Len(writes) = 2
    /\ writes[1].err = None /\ writes[2].err = None
    /\ configStore.Config = StoreFoo
    /\ "new:8443-bob" \in DOMAIN writes[1].config.Contexts
    /\ "old:443-carol" \in DOMAIN fs[configStore.Path].doc.Contexts
    /\ "new:8443-bob" \notin DOMAIN fs[configStore.Path].doc.Contexts
    /\ "bob" \notin DOMAIN fs[configStore.Path].doc.AuthInfos

\* C22: with a non-empty --config flag GetConfigFromDefaultLocations reads
\* only the file of the flag: it returns the store loaded from it, tagged
\* fromopenshift and flag, or, when the file does not load, an error; in
\* both cases no other location is read and no file is created or written.
\* (The steps are those of MergeConfig that reach the call.)
C22_FlagOnly ==
    [][ (/\ ucPc = "start" /\ ucPc' # "start" /\ Len(flagConfig) > 0
         /\ ucErr' \notin {InsufficientData, ClientConfigError}) =>
           /\ tried' = <<flagConfig>>
           /\ fs' = fs /\ writes' = writes
           /\ IF flagConfig \in DOMAIN fs /\ fs[flagConfig].kind = "doc"
              THEN /\ ucPc' = "store"
                   /\ configStore' = [Config |-> fs[flagConfig].doc, Path |-> flagConfig,
                                      providerEngine |-> "fromopenshift",
                                      providerLocation |-> "flag"]
              ELSE /\ ucPc' = "failed"
                   /\ ucErr' # None
                   /\ configStore' = configStore ]_vars

\* C22 witness: the file of the flag is absent while OPENSHIFTCONFIG and the
\* home directory have stores that load; the call failed having read the
\* file of the flag only.
C22_Witness ==
    /\ ucPc = "failed"
    /\ flagConfig = FlagFile /\ fs[FlagFile] = Absent
    /\ fs[OpenShiftHomeFile] = Holds(StoreFoo) /\ fs[HomeFile] = Holds(StoreBob)
    /\ tried = <<FlagFile>>
    /\ writes = <<>>

\* C23: without the flag GetConfigFromDefaultLocations returns the store of
\* the first location that loads, in the order OPENSHIFTCONFIG,
\* .openshiftconfig, ~/.config/openshift/.config, KUBECONFIG, .kubeconfig,
\* ~/.kube/.kubeconfig, with that location's path and provenance tags; no
\* later location is read; when none loads there is no store and the error
\* is ConfigStoreNotFoundError.
C23_FirstLocationWins ==
    [][ (/\ ucPc = "start" /\ ucPc' # "start" /\ flagConfig = <<>>
         /\ ucErr' \notin {InsufficientData, ClientConfigError}) =>
           LET order == << <<environ.OPENSHIFTCONFIG, "fromopenshift", "envvar">>,
                           << <<".openshiftconfig">>, "fromopenshift", "localdir">>,
                           << <<"/", "home", "u", ".config", "openshift", ".config">>,
                              "fromopenshift", "homedir">>,
                           <<environ.KUBECONFIG, "fromkube", "envvar">>,
                           << <<".kubeconfig">>, "fromkube", "localdir">>,
                           << <<"/", "home", "u", ".kube", ".kubeconfig">>,
                              "fromkube", "homedir">> >>
               loads(i) == /\ order[i][1] # <<>>
                           /\ order[i][1] \in DOMAIN fs
                           /\ fs[order[i][1]].kind = "doc"
               named(i) == order[i][1] # <<>>
               paths(n) == [j \in 1..n |-> order[j][1]]
           IN  IF \E i \in 1..6 : loads(i)
               THEN LET first == CHOOSE i \in 1..6 :
                                    loads(i) /\ \A j \in 1..(i - 1) : ~loads(j)
                    IN  /\ ucPc' = "store"
                        /\ configStore' = [Config |-> fs[order[first][1]].doc,
                                           Path |-> order[first][1],
                                           providerEngine |-> order[first][2],
                                           providerLocation |-> order[first][3]]
                        /\ tried' = SelectSeq(paths(first), LAMBDA q : q # <<>>)
               ELSE /\ ucPc' = "create"
                    /\ configStore' = configStore
                    /\ tried' = SelectSeq(paths(6), LAMBDA q : q # <<>>) ]_vars

\* C23 witness: OPENSHIFTCONFIG names a file that cannot be read,
\* .openshiftconfig is absent, and the stores of both home directories and
\* .kubeconfig load; the store returned is ~/.config/openshift/.config,
\* tagged fromopenshift and homedir, and the three Kube locations were not
\* read.
C23_Witness ==
    /\ ucPc = "store"
    /\ flagConfig = <<>> /\ environ.OPENSHIFTCONFIG = FlagFile /\ environ.KUBECONFIG = <<>>
    /\ fs[FlagFile] = Unreadable /\ fs[OpenShiftConfigFileName] = Absent
    /\ fs[OpenShiftHomeFile] = Holds(StoreBob)
    /\ fs[CurDirFile] = Holds(StoreBob) /\ fs[HomeFile] = Holds(StoreFoo)
    /\ configStore.Path = OpenShiftHomeFile
    /\ configStore.providerEngine = "fromopenshift"
    /\ configStore.providerLocation = "homedir"
    /\ tried = <<FlagFile, OpenShiftConfigFileName, OpenShiftHomeFile>>

\* C24: after the project command completed successfully for an existing
\* project, the CurrentContext of the written config file names a context
\* of the file whose Namespace is the project's name.
C24_ProjectSwitched ==
    (ucPc = "done" /\ project # "") =>
        /\ fs[configStore.Path].kind = "doc"
        /\ fs[configStore.Path].doc.CurrentContext
              \in DOMAIN fs[configStore.Path].doc.Contexts
        /\ fs[configStore.Path].doc.Contexts[fs[configStore.Path].doc.CurrentContext].Namespace
              = project

\* the document has at least one cluster, one auth info, one context and a
\* current context
Populated(doc) ==
    /\ DOMAIN Entries(doc.Clusters) # {}
    /\ DOMAIN Entries(doc.AuthInfos) # {}
    /\ DOMAIN Entries(doc.Contexts) # {}
    /\ doc.CurrentContext # ""

C26_SameKeySets ==
    Done => \A field \in MapFields :
                /\ DOMAIN mapConfig[field] = DOMAIN nonMapConfig[field]
                /\ DOMAIN config[field] = DOMAIN mapConfig[field]
                /\ \A k \in DOMAIN mapConfig[field] : config[field][k] = mapConfig[field][k]

\* no candidate file was changed between the two passes
CandidatesUnchanged ==
    \A i \in 1..Len(kubeConfigFiles) : kubeConfigFiles[i] \notin changed

\* C26, amended: the returned document has, for every key of mapConfig,
\* exactly mapConfig's entry, whatever nonMapConfig holds for that key, and
\* the merge of nonMapConfig on top removes and alters no map entry. When
\* no candidate file changes between the two passes, mapConfig and
\* nonMapConfig have the same key set in each map field and the merge adds
\* no map entry. When one changes, the keys that nonMapConfig has and
\* mapConfig lacks are added with nonMapConfig's entries, and these are the
\* only keys added.
C26_MapEntriesSurvive ==
    Done => \A field \in MapFields :
                /\ \A k \in DOMAIN mapConfig[field] :
                      k \in DOMAIN config[field] /\ config[field][k] = mapConfig[field][k]
                /\ CandidatesUnchanged =>
                      /\ DOMAIN mapConfig[field] = DOMAIN nonMapConfig[field]
                      /\ config[field] = mapConfig[field]
                /\ DOMAIN config[field] = DOMAIN mapConfig[field] \cup DOMAIN nonMapConfig[field]
                /\ \A k \in (DOMAIN nonMapConfig[field]) \ (DOMAIN mapConfig[field]) :
                      config[field][k] = nonMapConfig[field][k]

\* C26 witness: two loaded files define cluster a differently, so mapConfig
\* and nonMapConfig hold different entries for a, and the returned document
\* has mapConfig's; user v is in nonMapConfig only, from a file that
\* appeared after the first pass.
C26_Witness ==
    /\ Done
    /\ "a" \in DOMAIN mapConfig.Clusters /\ "a" \in DOMAIN nonMapConfig.Clusters
    /\ mapConfig.Clusters["a"] # nonMapConfig.Clusters["a"]
    /\ config.Clusters["a"] = mapConfig.Clusters["a"]
    /\ "v" \in DOMAIN nonMapConfig.AuthInfos /\ "v" \notin DOMAIN mapConfig.AuthInfos
    /\ "v" \in DOMAIN config.AuthInfos

\* C27 as stated: the second pass adds no error to the aggregate, and the
\* scalar of the returned document is resolved without the files that
\* failed in the second pass only: it is the CurrentContext of the
\* highest-priority file that the second pass read and that sets one, and
\* is empty when there is none.
C27_ScalarsMissing ==
    [][ pc = "scalar" =>
           /\ errlist' = errlist
           /\ pc' = "done" =>
                 config'.CurrentContext = ExpectedCurrentContext(kubeConfigFiles) ]_vars

\* C27, amended: the second pass adds no error to the aggregate, so a
\* failure in that pass alone is not reported, and the failed file takes no
\* part in the priority resolution of the scalar; but when no file read in
\* the second pass sets a CurrentContext, the returned document has the one
\* the first pass left in mapConfig, which can be the failed file's.
C27_OnlyFirstPassErrors ==
    [][ pc = "scalar" =>
           /\ errlist' = errlist
           /\ pc' = "done" =>
                 config'.CurrentContext =
                    IF ExpectedCurrentContext(kubeConfigFiles) # ""
                    THEN ExpectedCurrentContext(kubeConfigFiles)
                    ELSE mapConfig.CurrentContext ]_vars

\* C27 witness: a candidate file was read in the first pass and could not
\* be read in the second; no error is in the aggregate, no readable file
\* sets a CurrentContext, and the returned document has the CurrentContext
\* the first pass took from the failed file.
C27_Witness ==
    /\ Done
    /\ errlist = <<>>
    /\ \E i \in 1..Len(kubeConfigFiles) :
          Len(kubeConfigFiles[i]) > 0 /\ LoadFromFile(kubeConfigFiles[i]) = Unreadable
    /\ ExpectedCurrentContext(kubeConfigFiles) = ""
    /\ config.CurrentContext = "x"

\* C28 as stated: path resolution runs on the freshly decoded document of a
\* loaded file, before that document is merged into the accumulator, and
\* so never on entries that came from another candidate file.
C28_FreshDocumentOnly ==
    (resolved # <<>> /\ Loaded(resolved.file)) => resolved.config = DocOf(resolved.file)

\* What holds of Load instead of C28, while the directory of every file
\* can be made absolute: for each candidate slot, in each pass, the file is
\* first merged into the accumulator and path resolution then runs on the
\* whole accumulator, the entries of earlier candidates included; it leaves
\* those entries as they were, because they are absolute already, and
\* anchors the entries the file added at the directory of the file.
C28_ResolveAfterMerge ==
    [][ (/\ (pc = "map" /\ idx <= Len(kubeConfigFiles)) \/ (pc = "scalar" /\ idx >= 1)
         /\ wd # <<>>) =>
           LET file == kubeConfigFiles[idx]
               acc == IF pc = "map" THEN mapConfig ELSE nonMapConfig
               out == IF pc = "map" THEN mapConfig' ELSE nonMapConfig'
           IN  /\ resolved'.file = file
               /\ \A field \in MapFields :
                     /\ DOMAIN acc[field] \subseteq DOMAIN resolved'.config[field]
                     /\ DOMAIN out[field] = DOMAIN resolved'.config[field]
                     /\ \A k \in DOMAIN acc[field] : out[field][k] = acc[field][k]
                     /\ Loaded(file) =>
                           \A k \in (DOMAIN DocOf(file)[field]) \ (DOMAIN acc[field]) :
                              out[field][k] = AnchoredEntry(file, field, k) ]_vars

\* C29: every call of challengingClient.Do returns in the end, a response
\* or an error, whatever the server answers, also when it answers every
\* request with 401 and a Basic challenge.
C29_DoReturns == <>(chPc = "ret")

\* C30: the request sent after a Basic challenge is the request that
\* obtained the 401 response: what it puts on the wire has the same method,
\* URL, headers and body; the transport it is sent through is the default
\* transport with basic-auth credentials added.
C30_ReplaySameRequest ==
    \A i \in 1..(Len(reqs) - 1) :
        /\ OnTheWire(reqs[i + 1].arg) = reqs[i].wire
        /\ Len(sent) > i =>
              \E u \in TypedNames \cup {"alice"}, pw \in TypedPasswords \cup {"secret"} :
                 sent[i + 1] = [kind |-> "basic", username |-> u, password |-> pw,
                                rt |-> [kind |-> "default"]]

\* What holds of Do in place of C30: the request of the retry is resp.Request
\* itself, with the method, URL and headers that obtained the 401, and with
\* a body that yields nothing more; it is sent with basic-auth credentials.
C30_ReplayWithoutBody ==
    \A i \in 1..(Len(reqs) - 1) :
        /\ reqs[i + 1].arg = reqs[i].sent
        /\ [OnTheWire(reqs[i + 1].arg) EXCEPT !.Body = reqs[i].wire.Body] = reqs[i].wire
        /\ reqs[i + 1].arg.Body.left = ""
        /\ Len(sent) > i =>
              \E u \in TypedNames \cup {"alice"}, pw \in TypedPasswords \cup {"secret"} :
                 sent[i + 1] = [kind |-> "basic", username |-> u, password |-> pw,
                                rt |-> [kind |-> "default"]]

\* the token request with a header was redirected to /login, which answered
\* with a Basic challenge; the second request was the one to /login, sent
\* with the credentials alice and secret.
C30_Witness ==
    /\ Len(reqs) >= 2 /\ Len(sent) >= 2
    /\ reqs[1].arg.URL = "/oauth/authorize" /\ reqs[1].arg.Header = {"X-CSRF-Token"}
    /\ reqs[1].sent.URL = "/login"
    /\ reqs[2].arg.URL = "/login" /\ reqs[2].arg.Header = {}
    /\ sent[2].username = "alice" /\ sent[2].password = "secret"

\* C31: when the first whoami of DetermineAuthInfo succeeds and no user name
\* was given, or the name given is the name of the user returned, then
\* DetermineAuthInfo returns without a token request and without a prompt,
\* and the auth info returned has NewAuth = FALSE and the bearer token of
\* the client config as Token.
C31_AlreadyLoggedIn ==
    (/\ setup # <<>>
     /\ setup.pc \notin {"start", "new"}
     /\ setup.cc.err = None
     /\ setup.up1
     /\ setup.cc.cfg.BearerToken \in DOMAIN Users
     /\ \/ setup.username = ""
        \/ setup.username = Users[setup.cc.cfg.BearerToken].Name[2])
    => /\ \A i \in 1..Len(setup.calls) :
             setup.calls[i].fn \notin {"RequestToken", "PromptForBool"}
       /\ setup.calls = <<Call("whoami", setup.cc.cfg.BearerToken, TRUE)>>
       /\ setup.err = None
       /\ setup.info # None
       /\ setup.info.NewAuth = FALSE
       /\ setup.info.Token = setup.cc.cfg.BearerToken

\* bob, given with --username, is the user of the token of the client config
C31_Witness ==
    /\ setup # <<>>
    /\ setup.pc = "ret"
    /\ setup.username = "bob"
    /\ setup.cc.err = None
    /\ setup.cc.cfg.BearerToken = "t1"
    /\ setup.up1
    /\ setup.info = [Username |-> "bob", FullName |-> "Bob B", Token |-> "t1",
                     NewAuth |-> FALSE]

\* C32: DetermineAuthInfo never returns a nil auth info together with a
\* nil error.
C32_InfoOrError ==
    (setup # <<>> /\ setup.pc = "ret") => (setup.info # None \/ setup.err # None)

\* C33: when RawConfig, ClientConfig, Namespace or MergeConfig fails,
\* UpdateConfigFile returns that error and writes nothing: no file and no
\* permission changes and WriteToFile is not called.
C33_UntouchedOnError ==
    [][(ucPc = "store" /\ ucPc' = "failed" /\ ucErr' \in {StoreError(k) : k \in Fallible})
       => (fs' = fs /\ perm' = perm /\ writes' = writes)]_vars

\* MergeConfig failed on a store that was found: its file is as it was
C33_Witness ==
    /\ ucPc = "failed"
    /\ ucErr = StoreError("MergeConfig")
    /\ configStore # <<>>
    /\ configStore.Path = OpenShiftHomeFile
    /\ fs[OpenShiftHomeFile] = Holds(StoreFoo)
    /\ writes = <<>>

\* C34: once Do has handled a Basic challenge, the transport of the delegate
\* is one basic-auth wrapper directly around the default round tripper of
\* the client, however many challenges were handled, and every retried
\* request was sent through such a transport.
C34_NoNesting ==
    /\ (client # <<>> /\ Len(reqs) >= 2) =>
          /\ client.delegate.Transport.kind = "basic"
          /\ client.delegate.Transport.rt = client.defaultRoundTripper
          /\ client.delegate.Transport.rt.kind = "default"
    /\ \A i \in 2..Len(sent) :
          sent[i].kind = "basic" /\ sent[i].rt = [kind |-> "default"]

\* two challenges were handled, with different names typed at the prompts,
\* and the third request went out with the second set of credentials only
C34_Witness ==
    /\ Len(sent) = 3
    /\ sent[2].kind = "basic" /\ sent[3].kind = "basic"
    /\ sent[2].username = "" /\ sent[3].username = "bob"
    /\ sent[3].rt = [kind |-> "default"]
    /\ client.delegate.Transport = sent[3]

\* C35: without the flag, GetConfigFromDefaultLocations gives for files that
\* exist but cannot be decoded what it gives when those files are absent:
\* the store of the first location holding a document, all locations before
\* it having been read and skipped, and with no location holding a document
\* no store and the not-found error; no other error is returned.  (The
\* witness shows a store that is a lower-priority file than a file for
\* which Load, on the same files, reports an error.)
C35_UnreadableAsAbsent ==
    [][ (/\ ucPc = "start" /\ ucPc' # "start" /\ flagConfig = <<>>
         /\ tried' # tried) =>
           LET asAbsent == [f \in DOMAIN fs |->
                               IF fs[f].kind = "doc" THEN fs[f] ELSE [kind |-> "absent"]]
               order == <<environ.OPENSHIFTCONFIG, <<".openshiftconfig">>,
                          <<"/", "home", "u", ".config", "openshift", ".config">>,
                          environ.KUBECONFIG, <<".kubeconfig">>,
                          <<"/", "home", "u", ".kube", ".kubeconfig">> >>
               present(i) == /\ order[i] # <<>>
                             /\ order[i] \in DOMAIN asAbsent
                             /\ asAbsent[order[i]].kind # "absent"
           IN  /\ ucPc' # "failed"
               /\ ucErr' = ucErr
               /\ IF \E i \in 1..6 : present(i)
                  THEN /\ ucPc' = "store"
                       /\ \E i \in 1..6 :
                             /\ present(i)
                             /\ \A j \in 1..(i - 1) : ~present(j)
                             /\ configStore'.Path = order[i]
                             /\ configStore'.Config = asAbsent[order[i]].doc
                             /\ \A j \in 1..i : order[j] # <<>> =>
                                   \E n \in 1..Len(tried') : tried'[n] = order[j]
                  ELSE /\ ucPc' = "create"
                       /\ configStore' = configStore ]_vars

\* ~/.config/openshift/.config exists and cannot be decoded: Load on these
\* files reports an error for it, and the store chosen is ~/.kube/.kubeconfig
C35_Witness ==
    /\ ucPc = "store"
    /\ flagConfig = <<>>
    /\ environ = [KUBECONFIG |-> <<>>, OPENSHIFTCONFIG |-> <<>>]
    /\ fs[OpenShiftConfigFileName] = Absent
    /\ fs[OpenShiftHomeFile] = Unreadable
    /\ fs[CurDirFile] = Absent
    /\ fs[HomeFile] = Holds(StoreFoo)
    /\ LET errs == LoadOf(FlattenRules(NewOpenShiftClientConfigLoadingRules(environ))).errs
       IN  \E n \in 1..Len(errs) : errs[n] = LoadError(OpenShiftHomeFile)
    /\ tried = <<OpenShiftConfigFileName, OpenShiftHomeFile, CurDirFile, HomeFile>>
    /\ configStore.Path = HomeFile
    /\ configStore.Config = StoreFoo

\* the candidate list with every path left in its first slot only
FirstSlotsOnly(cands) ==
    [i \in 1..Len(cands) |->
        IF \E j \in 1..(i - 1) : cands[j] = cands[i] THEN <<>> ELSE cands[i]]

\* the number of slots of cands that hold f
Slots(cands, f) == Cardinality({i \in 1..Len(cands) : cands[i] = f})

\* C36: when a path occupies several slots of the candidate list, the
\* document Load returns is the document Load returns for the list with
\* that path in its first slot only; the errors are those of that list,
\* except that the error of a file that cannot be decoded is reported once
\* for every slot the file occupies.
C36_DuplicateCandidates ==
    (pc = "done" /\ FirstSlotsOnly(kubeConfigFiles) # kubeConfigFiles) =>
        LET once == LoadOf(FirstSlotsOnly(kubeConfigFiles))
            loadErrs == SelectSeq(errlist, LAMBDA e : e.kind = "load")
        IN  /\ config = LoadOf(kubeConfigFiles).config
            /\ config = once.config
            /\ {loadErrs[i] : i \in 1..Len(loadErrs)}
                  = {once.errs[i] : i \in 1..Len(once.errs)}
            /\ \A f \in DOMAIN fs :
                  /\ Cardinality({i \in 1..Len(once.errs) : once.errs[i].file = f}) <= 1
                  /\ Cardinality({i \in 1..Len(loadErrs) : loadErrs[i].file = f})
                        = IF fs[f].kind = "bad" THEN Slots(kubeConfigFiles, f) ELSE 0
            /\ Len(errlist) - Len(loadErrs) <= 1

\* the file of the flag is in the first and in the last slot, with two other
\* documents between; the file of the environment variable, in two slots,
\* cannot be decoded and is reported twice
C36_Witness ==
    /\ pc = "done"
    /\ Len(kubeConfigFiles) = 8
    /\ kubeConfigFiles[1] = FlagFile /\ kubeConfigFiles[8] = FlagFile
    /\ Slots(kubeConfigFiles, HomeFile) = 2
    /\ fs[FlagFile] = Holds(DocA) /\ fs[CurDirFile] = Holds(DocB)
    /\ fs[HomeFile] = Unreadable
    /\ errlist = <<LoadError(HomeFile), LoadError(HomeFile)>>
    /\ config.CurrentContext = "x"
====
